---------------------------- MODULE Spec2Model ----------------------------
(***************************************************************************)
(* Expense tracker: the transaction service (server actions over the       *)
(* persistence gateway and the authentication provider) and the receipt    *)
(* extraction adapter.                                                     *)
(*                                                                         *)
(* Texts (names, amount texts) are sequences of one-character strings, so  *)
(* that trim() and parseFloat() are computed character by character.       *)
(* Numbers are JavaScript numbers restricted to decimals with at most      *)
(* FracDigits fraction digits: [k |-> "num", v |-> units of 10^-FracDigits]*)
(* plus NaN and +/-Infinity.  Dates are [y, m, d, ms]: year, 0-based month *)
(* index, day of month, millisecond of the day, in one time zone.          *)
(***************************************************************************)
EXTENDS Integers, Sequences, FiniteSets, TLC

(***************************************************************************)
(* Bounds of the model.                                                    *)
(***************************************************************************)
\* Transaction ids handed out over a run (ids are never reused).
MaxIds == 2
\* Fraction digits an amount text may carry; amounts are counted in 10^-FracDigits.
FracDigits == 2

Scale == 10 ^ FracDigits

(***************************************************************************)
(* Texts.                                                                  *)
(***************************************************************************)
Digits == <<"0", "1", "2", "3", "4", "5", "6", "7", "8", "9">>

IsDigit(c) == \E i \in 1..Len(Digits) : Digits[i] = c

DigitVal(c) == (CHOOSE i \in 1..Len(Digits) : Digits[i] = c) - 1

IsWhite(c) == c \in {" ", "\t", "\n"}

RECURSIVE TrimStart(_)
TrimStart(s) == IF s # <<>> /\ IsWhite(Head(s)) THEN TrimStart(Tail(s)) ELSE s

RECURSIVE TrimEnd(_)
TrimEnd(s) ==
    IF s # <<>> /\ IsWhite(s[Len(s)]) THEN TrimEnd(SubSeq(s, 1, Len(s) - 1)) ELSE s

\* String.prototype.trim
trim(s) == TrimEnd(TrimStart(s))

StartsWith(s, p) == Len(s) >= Len(p) /\ SubSeq(s, 1, Len(p)) = p

Drop(s, n) == SubSeq(s, n + 1, Len(s))

\* The longest prefix of s made of decimal digits.
RECURSIVE DigitRun(_)
DigitRun(s) ==
    IF s # <<>> /\ IsDigit(Head(s)) THEN <<Head(s)>> \o DigitRun(Tail(s)) ELSE <<>>

RECURSIVE IntOf(_)
IntOf(ds) ==
    IF ds = <<>> THEN 0 ELSE 10 * IntOf(SubSeq(ds, 1, Len(ds) - 1)) + DigitVal(ds[Len(ds)])

\* The fraction digits fs as a count of 10^-FracDigits.
RECURSIVE FracOf(_, _)
FracOf(fs, i) ==
    IF i > FracDigits \/ i > Len(fs) THEN 0
    ELSE DigitVal(fs[i]) * (10 ^ (FracDigits - i)) + FracOf(fs, i + 1)

(***************************************************************************)
(* Numbers.                                                                *)
(***************************************************************************)
NaN == [k |-> "nan", v |-> 0]

Infinity(sign) == [k |-> "inf", v |-> sign]

Num(v) == [k |-> "num", v |-> v]

InfinityText == <<"I", "n", "f", "i", "n", "i", "t", "y">>

\* parseFloat: leading white space is skipped, then an optional sign, then
\* "Infinity" or the longest decimal literal; whatever follows is ignored; NaN
\* when no literal starts the text.  (Amount texts of the model carry no
\* exponent part.)
parseFloat(text) ==
    LET t == TrimStart(text)
        signed == t # <<>> /\ Head(t) \in {"-", "+"}
        sign == IF signed /\ Head(t) = "-" THEN -1 ELSE 1
        body == IF signed THEN Tail(t) ELSE t
        ip == DigitRun(body)
        afterInt == Drop(body, Len(ip))
        hasDot == afterInt # <<>> /\ Head(afterInt) = "."
        fp == IF hasDot THEN DigitRun(Tail(afterInt)) ELSE <<>>
    IN  IF StartsWith(body, InfinityText) THEN Infinity(sign)
        ELSE IF ip = <<>> /\ fp = <<>> THEN NaN
        ELSE Num(sign * (IntOf(ip) * Scale + FracOf(fp, 1)))

isNaN(x) == x.k = "nan"

\* x <= 0 on JavaScript numbers (false for NaN).
LeZero(x) == (x.k = "num" /\ x.v <= 0) \/ (x.k = "inf" /\ x.v < 0)

\* A finite number fits the DECIMAL(65,30) column; NaN and the infinities do not.
FitsDecimal(x) == x.k = "num"

\* The column value (a fixed-point decimal, counted in 10^-FracDigits).
ToDecimal(x) == x.v

\* Number(decimal)
Number(dec) == Num(dec)

\* The decimal digits of a natural number.
RECURSIVE DigitsOf(_)
DigitsOf(n) ==
    IF n < 10 THEN <<Digits[n + 1]>> ELSE DigitsOf(n \div 10) \o <<Digits[(n % 10) + 1]>>

\* The last w decimal digits of f, zeros included.
RECURSIVE PadDigits(_, _)
PadDigits(f, w) ==
    IF w = 0 THEN <<>> ELSE PadDigits(f \div 10, w - 1) \o <<Digits[(f % 10) + 1]>>

RECURSIVE StripZeros(_)
StripZeros(ds) ==
    IF ds # <<>> /\ ds[Len(ds)] = "0" THEN StripZeros(SubSeq(ds, 1, Len(ds) - 1)) ELSE ds

\* Number.prototype.toString: the shortest decimal text of the number.
toString(x) ==
    IF x.k = "nan" THEN <<"N", "a", "N">>
    ELSE IF x.k = "inf" THEN (IF x.v < 0 THEN <<"-">> ELSE <<>>) \o InfinityText
    ELSE LET a == IF x.v < 0 THEN 0 - x.v ELSE x.v
             frac == StripZeros(PadDigits(a % Scale, FracDigits))
         IN  (IF x.v < 0 THEN <<"-">> ELSE <<>>) \o DigitsOf(a \div Scale)
                 \o (IF frac = <<>> THEN <<>> ELSE <<".">> \o frac)

(***************************************************************************)
(* Dates.                                                                  *)
(***************************************************************************)
MkDate(y, m, d, ms) == [y |-> y, m |-> m, d |-> d, ms |-> ms]

IsLeap(y) == (y % 4 = 0 /\ y % 100 # 0) \/ y % 400 = 0

\* Days of the month with 0-based index m of year y.
DaysInMonth(y, m) ==
    IF m = 1 THEN (IF IsLeap(y) THEN 28 + 1 ELSE 28)
    ELSE IF m \in {3, 5, 8, 10} THEN 30
    ELSE 31

\* new Date(year, monthIndex, day): local midnight; a monthIndex of 12 rolls into
\* the next year and a day of 0 is the last day of the month before.
NewDate(year, monthIndex, day) ==
    LET y1 == year + (monthIndex \div 12)
        m1 == monthIndex % 12
        y0 == IF m1 = 0 THEN y1 - 1 ELSE y1
        m0 == IF m1 = 0 THEN 11 ELSE m1 - 1
    IN  IF day = 0 THEN MkDate(y0, m0, DaysInMonth(y0, m0), 0)
        ELSE MkDate(y1, m1, day, 0)

\* a <= b on instants.
DateLE(a, b) ==
    \/ a.y < b.y
    \/ a.y = b.y /\ a.m < b.m
    \/ a.y = b.y /\ a.m = b.m /\ a.d < b.d
    \/ a.y = b.y /\ a.m = b.m /\ a.d = b.d /\ a.ms <= b.ms

StartOfDayMs == 0

EndOfDayMs == ((23 * 60 + 59) * 60 + 59) * 1000 + 999

NoonMs == 12 * 60 * 60 * 1000

\* Date.prototype.setHours(h, min, s, ms) with the time given as millisecond of day.
setHours(date, ms) == [date EXCEPT !.ms = ms]

SameDay(a, b) == a.y = b.y /\ a.m = b.m /\ a.d = b.d

SameMonth(a, b) == a.y = b.y /\ a.m = b.m

\* a < b on instants.
DateLT(a, b) == ~DateLE(b, a)

\* date-fns: the calendar helpers of the reports page.
startOfDay(date) == setHours(date, StartOfDayMs)

\* The month with 0-based index k counted from year 0, with the day of date cut
\* to the length of that month.
MonthAt(date, k) ==
    LET y == k \div 12
        m == k % 12
        d == IF date.d > DaysInMonth(y, m) THEN DaysInMonth(y, m) ELSE date.d
    IN  MkDate(y, m, d, date.ms)

addMonths(date, n) == MonthAt(date, date.y * 12 + date.m + n)

subMonths(date, n) == addMonths(date, 0 - n)

NextDay(date) ==
    IF date.d < DaysInMonth(date.y, date.m) THEN [date EXCEPT !.d = @ + 1]
    ELSE [addMonths([date EXCEPT !.d = 1], 1) EXCEPT !.d = 1]

PrevDay(date) ==
    IF date.d > 1 THEN [date EXCEPT !.d = @ - 1]
    ELSE LET p == addMonths([date EXCEPT !.d = 1], 0 - 1)
         IN  [p EXCEPT !.d = DaysInMonth(p.y, p.m)]

RECURSIVE addDays(_, _)
addDays(date, n) ==
    IF n = 0 THEN date
    ELSE IF n > 0 THEN addDays(NextDay(date), n - 1)
    ELSE addDays(PrevDay(date), n + 1)

addWeeks(date, n) == addDays(date, 7 * n)

startOfMonth(date) == MkDate(date.y, date.m, 1, StartOfDayMs)

endOfMonth(date) == MkDate(date.y, date.m, DaysInMonth(date.y, date.m), EndOfDayMs)

startOfYear(date) == MkDate(date.y, 0, 1, StartOfDayMs)

endOfYear(date) == MkDate(date.y, 11, 31, EndOfDayMs)

RECURSIVE DaysBeforeMonth(_, _)
DaysBeforeMonth(y, m) ==
    IF m = 0 THEN 0 ELSE DaysInMonth(y, m - 1) + DaysBeforeMonth(y, m - 1)

\* Days from the start of the proleptic Gregorian calendar to the date.
DayNumber(date) ==
    365 * date.y + ((date.y - 1) \div 4) - ((date.y - 1) \div 100)
        + ((date.y - 1) \div 400) + DaysBeforeMonth(date.y, date.m) + date.d

\* Date.prototype.getDay: 0 is Sunday (2024-01-01 was a Monday).
getDay(date) == (DayNumber(date) + 6) % 7

\* startOfWeek with the default weekStartsOn: the Sunday of the week, at 00:00.
startOfWeek(date) == addDays(startOfDay(date), 0 - getDay(date))

\* add(date, { days | weeks | months: 1 })
AddUnit(date, unit) ==
    IF unit = "day" THEN addDays(date, 1)
    ELSE IF unit = "week" THEN addWeeks(date, 1)
    ELSE addMonths(date, 1)

\* The starts from cur on, one unit apart, that are not after end.
RECURSIVE EachFrom(_, _, _)
EachFrom(cur, end, unit) ==
    IF DateLE(cur, end) THEN <<cur>> \o EachFrom(AddUnit(cur, unit), end, unit) ELSE <<>>

eachDayOfInterval(start, end) == EachFrom(startOfDay(start), end, "day")

eachWeekOfInterval(start, end) == EachFrom(startOfWeek(start), end, "week")

eachMonthOfInterval(start, end) == EachFrom(startOfMonth(start), end, "month")

(***************************************************************************)
(* State.                                                                  *)
(***************************************************************************)
VARIABLES
    users,          \* table "User": rows [id, email, name, currency]
    transactions,   \* table "Transaction": rows [id, name, amount, category, date, userId]
    nextId,         \* the next fresh transaction id
    profile,        \* the authentication provider's profile of every account
    res,            \* the last call of a public operation: its inputs and its result
    page,           \* the records page of one browser session
    modal,          \* the "Add with AI" modal of that page
    reports,        \* the reports page of that session
    ev              \* the last event of the session's user interface

vars == <<users, transactions, nextId, profile, res, page, modal, reports, ev>>

\* The state of the client (the browser session).
client == <<page, modal, reports, ev>>

UserIds == {"u1", "u2"}

\* auth() resolved no identity.
NoUser == "null"

\* An account of the provider without an email address / without a full name.
NoEmail == "undefined"

NoName == "undefined"

validCategories ==
    {"Food", "Groceries", "Transportation", "Internet", "Health", "Sport",
     "Shopping", "Entertainment", "BadHabits", "Other"}

(***************************************************************************)
(* Faults of the collaborators: the call named by at throws an Error with  *)
(* message msg.  at = "none": every collaborator answers.                  *)
(***************************************************************************)
NoFault == [at |-> "none", msg |-> ""]

FaultMessages == {"", "ECONNREFUSED"}

Fault(at, msg) == [at |-> at, msg |-> msg]

(***************************************************************************)
(* Results of the public operations, and what a call leaves behind.        *)
(***************************************************************************)
NoDate == MkDate(0, 0, 0, 0)

NoArgs ==
    [id |-> 0, name |-> <<>>, amount |-> <<>>, category |-> "", date |-> NoDate,
     endDate |-> NoDate]

FormArgs(id, data) ==
    [id |-> id, name |-> data.name, amount |-> data.amount,
     category |-> data.category, date |-> data.date, endDate |-> NoDate]

\* The structured result { success, error?, transaction?, transactions?, total? }.
\* error is the message as its constant text followed by its interpolated part;
\* transaction and data are lists of at most one element.
Success ==
    [success |-> TRUE, error |-> <<>>, transaction |-> <<>>, transactions |-> <<>>,
     total |-> Num(0), data |-> <<>>]

Failure(error) == [Success EXCEPT !.success = FALSE, !.error = error]

DB == [users |-> users, transactions |-> transactions, nextId |-> nextId]

\* An outcome of running a body: the tables it leaves, and either the value it
\* returned or the message of the Error it threw.
Return(db, ret) == [db |-> db, thrown |-> FALSE, msg |-> "", ret |-> ret]

Throw(db, msg) == [db |-> db, thrown |-> TRUE, msg |-> msg, ret |-> Failure(<<>>)]

\* No catch: the Error goes on to the caller.
NoCatch(out, prefix, unknown) == out

\* catch (error) { return { success: false, error: prefix + ": " + (error.message || unknown) } }
Catch(out, prefix, unknown) ==
    IF out.thrown
    THEN Return(out.db, Failure(<<prefix, IF out.msg = "" THEN unknown ELSE out.msg>>))
    ELSE out

\* A data URL cut into its parts: "<scheme><mime>[;base64][,<data>]".
Image(scheme, mime, semi, comma, data) ==
    [scheme |-> scheme, mime |-> mime, semi |-> semi, comma |-> comma, data |-> data]

\* The empty string.
NoImage == Image("", "", FALSE, FALSE, "")

\* The token of a base64 text of 11 MB, and the size in bytes of what an image's
\* data decodes to.
LargeData == "iVBORw0KGgo...(11MB)"

ImageSize(image) ==
    IF image.data = LargeData THEN 11 * 1024 * 1024
    ELSE IF image.data = "" THEN 0
    ELSE 2048

\* A field the response object does not have.
Missing == [t |-> "undefined", s |-> "", n |-> 0]

\* A JSON string.
Str(s) == [t |-> "string", s |-> s, n |-> 0]

\* A JSON number, counted in 10^-FracDigits.
JsonNumber(n) == [t |-> "number", s |-> "", n |-> n]

JsonObject(name, amount, date, category) ==
    [name |-> name, amount |-> amount, date |-> date, category |-> category]

NoJson == JsonObject(Missing, Missing, Missing, Missing)

\* The extraction provider throws an Error with this message.
ReplyThrow(msg) == [k |-> "throw", msg |-> msg, text |-> <<>>, json |-> NoJson]

\* The extraction provider answers this text.
ReplyText(text, json) == [k |-> "text", msg |-> <<>>, text |-> text, json |-> json]

\* res.scan holds the inputs [apiKey, image, reply] of a call of scanReceipt,
\* and NoScan for the other operations.
NoScan == <<>>

\* The call is over: the tables and the record of the call.
Call(op, caller, args, fault, scan, out) ==
    /\ users' = out.db.users
    /\ transactions' = out.db.transactions
    /\ nextId' = out.db.nextId
    /\ res' = [op |-> op, caller |-> caller, args |-> args, fault |-> fault,
               scan |-> scan, thrown |-> out.thrown, ret |-> out.ret]
    /\ UNCHANGED profile

\* A call made from outside the modelled browser session.
FinishCall(op, caller, args, fault, scan, out) ==
    /\ Call(op, caller, args, fault, scan, out)
    /\ UNCHANGED client

Finish(op, caller, args, fault, out) == FinishCall(op, caller, args, fault, NoScan, out)

(***************************************************************************)
(* Persistence gateway.                                                    *)
(***************************************************************************)
UserRow(id) == CHOOSE u \in users : u.id = id

\* The unique index on "User"."email".
EmailTaken(db, id, email) == \E u \in db.users : u.id # id /\ u.email = email

\* prisma.user.upsert({ where: { id }, update: { email, name }, create: { id, email, name, currency } })
upsert(db, id, email, name) ==
    LET old == {u \in db.users : u.id = id}
        row == IF old = {}
               THEN [id |-> id, email |-> email, name |-> name, currency |-> "USD"]
               ELSE [(CHOOSE u \in old : TRUE) EXCEPT !.email = email, !.name = name]
    IN  [db EXCEPT !.users = (db.users \ old) \cup {row}]

\* Helper: ensure the caller's row exists in "User".  Any error of currentUser()
\* or of the upsert is rethrown as 'Failed to create user record'.
ensureUser(db, userId, fault) ==
    LET user == profile[userId]
        email == IF user.email = NoEmail THEN "" ELSE user.email
        name == IF user.fullName = NoName THEN "null" ELSE user.fullName
    IN  IF fault.at = "ensureUser" \/ EmailTaken(db, userId, email)
        THEN Throw(db, "Failed to create user record")
        ELSE Return(upsert(db, userId, email, name), Success)

\* Helper: convert the Decimal amount to a number for serialization.
serializeTransaction(t) == [t EXCEPT !.amount = Number(t.amount)]

\* where: { id }, whoever owns the row.
WhereIdOnly(db, id, userId) == {t \in db.transactions : t.id = id}

\* where: { id, userId }
WhereIdUser(db, id, userId) == {t \in db.transactions : t.id = id /\ t.userId = userId}

\* where: { userId }
WhereUser(db, userId) == {t \in db.transactions : t.userId = userId}

\* where: { userId, date: { gte, lte } }
WhereUserDate(db, userId, gte, lte) ==
    {t \in db.transactions : t.userId = userId /\ DateLE(gte, t.date) /\ DateLE(t.date, lte)}

\* orderBy: { date: 'desc' }: every listing of the rows by non-increasing date
\* (the order of rows of equal date is the database's choice).
OrderByDateDesc(rows) ==
    {s \in [1..Cardinality(rows) -> rows] :
        /\ \A i, j \in DOMAIN s : i # j => s[i] # s[j]
        /\ \A i, j \in DOMAIN s : i < j => DateLE(s[j].date, s[i].date)}

RECURSIVE SumAmounts(_)
SumAmounts(rows) ==
    IF rows = {} THEN 0
    ELSE LET t == CHOOSE x \in rows : TRUE IN t.amount + SumAmounts(rows \ {t})

MapSerialize(s) == [i \in DOMAIN s |-> serializeTransaction(s[i])]

(***************************************************************************)
(* Transaction service.  Each operation is a try block, whose outcomes are *)
(* computed by the ...Try operator, inside a catch that turns a thrown     *)
(* Error into a failure result.                                            *)
(***************************************************************************)
\* prisma.transaction.create({ data: { name, amount, category, date, userId } })
prismaCreate(db, name, amount, category, date, userId, fault) ==
    IF fault.at = "query" THEN Throw(db, fault.msg)
    ELSE IF ~FitsDecimal(amount) \/ category \notin validCategories
    THEN Throw(db, "Invalid prisma.transaction.create() invocation")
    ELSE IF ~\E u \in db.users : u.id = userId
    THEN Throw(db, "Foreign key constraint violated")
    ELSE LET row == [id |-> db.nextId, name |-> name, amount |-> ToDecimal(amount),
                     category |-> category, date |-> date, userId |-> userId]
         IN  Return([db EXCEPT !.transactions = @ \cup {row}, !.nextId = @ + 1],
                    [Success EXCEPT !.transaction = <<row>>])

\* prisma.transaction.update({ where: { id, userId }, data: { name, amount, category, date } })
prismaUpdate(db, id, userId, name, amount, category, date, fault) ==
    LET old == WhereIdUser(db, id, userId)
    IN  IF fault.at = "query" THEN Throw(db, fault.msg)
        ELSE IF ~FitsDecimal(amount) \/ category \notin validCategories
        THEN Throw(db, "Invalid prisma.transaction.update() invocation")
        ELSE IF old = {} THEN Throw(db, "Record to update not found.")
        ELSE LET row == [(CHOOSE t \in old : TRUE) EXCEPT
                            !.name = name, !.amount = ToDecimal(amount),
                            !.category = category, !.date = date]
             IN  Return([db EXCEPT !.transactions = (@ \ old) \cup {row}],
                        [Success EXCEPT !.transaction = <<row>>])

\* prisma.transaction.delete({ where: { id, userId } })
prismaDelete(db, id, userId, fault) ==
    LET old == WhereIdUser(db, id, userId)
    IN  IF fault.at = "query" THEN Throw(db, fault.msg)
        ELSE IF old = {} THEN Throw(db, "Record to delete does not exist.")
        ELSE Return([db EXCEPT !.transactions = @ \ old], Success)

\* revalidatePath('/records') and the return of the serialized row.
revalidateAndReturn(out, fault, withRow) ==
    IF out.thrown THEN out
    ELSE IF fault.at = "revalidatePath" THEN Throw(out.db, fault.msg)
    ELSE IF withRow
    THEN Return(out.db, [Success EXCEPT
                            !.transaction = <<serializeTransaction(out.ret.transaction[1])>>])
    ELSE Return(out.db, Success)

\* createTransaction without its category check.
createTransactionTryNoCategoryCheck(db, userId, data, fault) ==
    IF fault.at = "auth" THEN Throw(db, fault.msg)
    ELSE IF userId = NoUser THEN Return(db, Failure(<<"Unauthorized: Please sign in">>))
    ELSE LET ensured == ensureUser(db, userId, fault)
             amount == parseFloat(data.amount)
         IN  IF ensured.thrown THEN ensured
             ELSE IF isNaN(amount) \/ LeZero(amount)
             THEN Return(ensured.db,
                         Failure(<<"Invalid amount: Please enter a valid positive number">>))
             ELSE revalidateAndReturn(
                      prismaCreate(ensured.db, trim(data.name), amount, data.category,
                                   data.date, userId, fault),
                      fault, TRUE)

createTransactionTry(db, userId, data, fault) ==
    IF fault.at = "auth" THEN Throw(db, fault.msg)
    ELSE IF userId = NoUser THEN Return(db, Failure(<<"Unauthorized: Please sign in">>))
    ELSE LET ensured == ensureUser(db, userId, fault)
             amount == parseFloat(data.amount)
         IN  IF ensured.thrown THEN ensured
             ELSE IF isNaN(amount) \/ LeZero(amount)
             THEN Return(ensured.db,
                         Failure(<<"Invalid amount: Please enter a valid positive number">>))
             ELSE IF data.category \notin validCategories
             THEN Return(ensured.db, Failure(<<"Invalid category", data.category>>))
             ELSE revalidateAndReturn(
                      prismaCreate(ensured.db, trim(data.name), amount, data.category,
                                   data.date, userId, fault),
                      fault, TRUE)

createTransactionOut(db, userId, data, fault) ==
    Catch(createTransactionTry(db, userId, data, fault),
          "Failed to create transaction", "Unknown error occurred")

updateTransactionTry(db, userId, id, data, fault) ==
    IF fault.at = "auth" THEN Throw(db, fault.msg)
    ELSE IF userId = NoUser THEN Return(db, Failure(<<"Unauthorized">>))
    ELSE LET amount == parseFloat(data.amount)
         IN  IF isNaN(amount) \/ LeZero(amount)
             THEN Return(db, Failure(<<"Invalid amount">>))
             ELSE revalidateAndReturn(
                      prismaUpdate(db, id, userId, trim(data.name), amount, data.category,
                                   data.date, fault),
                      fault, TRUE)

updateTransactionOut(db, userId, id, data, fault) ==
    Catch(updateTransactionTry(db, userId, id, data, fault),
          "Failed to update transaction", "Unknown error")

\* deleteTransaction without its identity check, the missing userId dropping out
\* of the where clause.
deleteTransactionTryNoAuthCheck(db, userId, id, fault) ==
    IF fault.at = "auth" THEN Throw(db, fault.msg)
    ELSE IF userId = NoUser
    THEN revalidateAndReturn(
             IF WhereIdOnly(db, id, userId) = {}
             THEN Throw(db, "Record to delete does not exist.")
             ELSE Return([db EXCEPT !.transactions = @ \ WhereIdOnly(db, id, userId)],
                         Success),
             fault, FALSE)
    ELSE revalidateAndReturn(prismaDelete(db, id, userId, fault), fault, FALSE)

deleteTransactionTry(db, userId, id, fault) ==
    IF fault.at = "auth" THEN Throw(db, fault.msg)
    ELSE IF userId = NoUser THEN Return(db, Failure(<<"Unauthorized">>))
    ELSE revalidateAndReturn(prismaDelete(db, id, userId, fault), fault, FALSE)

deleteTransactionOut(db, userId, id, fault) ==
    Catch(deleteTransactionTry(db, userId, id, fault),
          "Failed to delete transaction", "Unknown error")

\* The outcomes of a findMany ordered by date descending, serialized.
findManyOuts(db, rows, fault) ==
    IF fault.at = "query" THEN {Throw(db, fault.msg)}
    ELSE {Return(db, [Success EXCEPT !.transactions = MapSerialize(s)]) :
            s \in OrderByDateDesc(rows)}

getTransactionsTry(db, userId, fault) ==
    IF fault.at = "auth" THEN {Throw(db, fault.msg)}
    ELSE IF userId = NoUser THEN {Return(db, Failure(<<"Unauthorized">>))}
    ELSE LET ensured == ensureUser(db, userId, fault)
         IN  IF ensured.thrown THEN {ensured}
             ELSE findManyOuts(ensured.db, WhereUser(ensured.db, userId), fault)

getTransactionsOut(db, userId, fault) ==
    {Catch(out, "Failed to fetch transactions", "Unknown error") :
        out \in getTransactionsTry(db, userId, fault)}

\* prisma.transaction.aggregate({ where, _sum: { amount: true } }): the sum is
\* null when no row matches, and the total is then 0.
getMonthlyTotalTry(db, userId, month, fault) ==
    IF fault.at = "auth" THEN Throw(db, fault.msg)
    ELSE IF userId = NoUser THEN Return(db, Failure(<<"Unauthorized">>))
    ELSE LET ensured == ensureUser(db, userId, fault)
             \* const startOfMonth, const endOfMonth
             monthStart == NewDate(month.y, month.m, 1)
             monthEnd == NewDate(month.y, month.m + 1, 0)
             rows == WhereUserDate(ensured.db, userId, monthStart, monthEnd)
         IN  IF ensured.thrown THEN ensured
             ELSE IF fault.at = "query" THEN Throw(ensured.db, fault.msg)
             ELSE Return(ensured.db,
                         [Success EXCEPT !.total =
                             IF rows = {} THEN Num(0) ELSE Number(SumAmounts(rows))])

getMonthlyTotalOut(db, userId, month, fault) ==
    Catch(getMonthlyTotalTry(db, userId, month, fault),
          "Failed to fetch monthly total", "Unknown error")

getTransactionsByDateRangeTry(db, userId, startDate, endDate, fault) ==
    IF fault.at = "auth" THEN {Throw(db, fault.msg)}
    ELSE IF userId = NoUser THEN {Return(db, Failure(<<"Unauthorized">>))}
    ELSE LET ensured == ensureUser(db, userId, fault)
             start == setHours(startDate, StartOfDayMs)
             end == setHours(endDate, EndOfDayMs)
         IN  IF ensured.thrown THEN {ensured}
             ELSE findManyOuts(ensured.db,
                               WhereUserDate(ensured.db, userId, start, end), fault)

getTransactionsByDateRangeOut(db, userId, startDate, endDate, fault) ==
    {Catch(out, "Failed to fetch transactions", "Unknown error") :
        out \in getTransactionsByDateRangeTry(db, userId, startDate, endDate, fault)}

(***************************************************************************)
(* The public operations as steps of the system.                           *)
(***************************************************************************)
createTransaction(userId, data, fault) ==
    LET out == createTransactionOut(DB, userId, data, fault)
    IN  /\ out.db.nextId <= MaxIds + 1
        /\ Finish("createTransaction", userId, FormArgs(0, data), fault, out)

updateTransaction(userId, id, data, fault) ==
    Finish("updateTransaction", userId, FormArgs(id, data), fault,
           updateTransactionOut(DB, userId, id, data, fault))

deleteTransaction(userId, id, fault) ==
    Finish("deleteTransaction", userId, [NoArgs EXCEPT !.id = id], fault,
           deleteTransactionOut(DB, userId, id, fault))

getTransactions(userId, fault) ==
    \E out \in getTransactionsOut(DB, userId, fault) :
        Finish("getTransactions", userId, NoArgs, fault, out)

getMonthlyTotal(userId, month, fault) ==
    Finish("getMonthlyTotal", userId, [NoArgs EXCEPT !.date = month], fault,
           getMonthlyTotalOut(DB, userId, month, fault))

getTransactionsByDateRange(userId, startDate, endDate, fault) ==
    \E out \in getTransactionsByDateRangeOut(DB, userId, startDate, endDate, fault) :
        Finish("getTransactionsByDateRange", userId,
               [NoArgs EXCEPT !.date = startDate, !.endDate = endDate], fault, out)

(***************************************************************************)
(* Receipt extraction adapter.                                             *)
(*                                                                         *)
(* An image is the data URL cut into its parts: [scheme, mime, semi, comma,*)
(* data] for "<scheme><mime>[;base64][,<data>]".  An error message and the *)
(* provider's response text are sequences of tokens.  A reply of the       *)
(* provider is [k, msg, text, json]: it throws an Error with message msg   *)
(* (k = "throw") or answers text, in which the token JsonText stands for   *)
(* the text of the object json.                                            *)
(***************************************************************************)
\* A category list with one more value.
categoriesWithCoffee == validCategories \cup {"Coffee"}

categories == validCategories

ImageMimes == {"image/jpeg", "image/png"}

\* base64Image.startsWith('data:image/')
StartsWithDataImage(image) == image.scheme = "data:" /\ image.mime \in ImageMimes

\* base64ToGenerativePart: [header, data] = image.split(","), the mime type is
\* what stands between ":" and ";" in the header; throws without one of them.
base64ToGenerativePart(image) ==
    LET mimeType == IF image.semi THEN image.mime ELSE ""
        data == IF image.comma THEN image.data ELSE ""
    IN  IF mimeType = "" \/ data = "" THEN Throw(DB, <<"Invalid", "image", "data">>)
        ELSE Return(DB, Success)

\* message.includes(sub): sub is a contiguous part of message.
Includes(message, sub) ==
    \E i \in 0..(Len(message) - Len(sub)) : SubSeq(message, i + 1, i + Len(sub)) = sub

\* The markdown code fence, with and without its language tag.
Fences == {"FENCE-json", "FENCE"}

RECURSIVE StripFences(_)
StripFences(text) ==
    IF text = <<>> THEN <<>>
    ELSE IF Head(text) \in Fences THEN StripFences(Tail(text))
    ELSE <<Head(text)>> \o StripFences(Tail(text))

\* The response text with every code fence removed, trimmed.
CleanText(text) == trim(StripFences(text))

\* !value
Falsy(value) ==
    \/ value.t = "undefined"
    \/ value.t = "string" /\ value.s = ""
    \/ value.t = "number" /\ value.n = 0

\* The token that stands for the text of the JSON object reply.json.
JsonText == "{json}"

\* JSON.parse succeeds on the text of a JSON value and throws a SyntaxError
\* on anything else.
IsJson(text) == text = <<JsonText>>

\* What new Date(text).toISOString().split('T')[0] can give for a date text that
\* is not YYYY-MM-DD: nothing for an unparseable text, else the day or, in a time
\* zone ahead of UTC, the day before.
ParsedIsoDays(text) ==
    IF text = "Nov 3, 2024" THEN {"2024-11-03", "2024-11-02"} ELSE {}

MatchesDateRegex(text) == text \in {"2024-11-03", "2024-02-30"}

Todays == {"2024-11-15"}

\* A try block of scanReceipt without the check of the amount.
scanReceiptTryNoAmountCheck(apiKey, image, reply) ==
    LET part == base64ToGenerativePart(image)
        cleanedText == CleanText(reply.text)
        jsonData == reply.json
        category == IF jsonData.category.s \in categories THEN jsonData.category
                    ELSE Str("Other")
        dates == IF MatchesDateRegex(jsonData.date.s) THEN {jsonData.date.s}
                 ELSE IF ParsedIsoDays(jsonData.date.s) = {} THEN Todays
                 ELSE ParsedIsoDays(jsonData.date.s)
    IN  IF ~apiKey
        THEN {Return(DB, Failure(<<"Gemini API key not configured. Please add GEMINI_API_KEY to your .env file.">>))}
        ELSE IF image = NoImage \/ ~StartsWithDataImage(image)
        THEN {Return(DB, Failure(<<"Invalid image format. Please select a valid image file.">>))}
        ELSE IF part.thrown THEN {part}
        ELSE IF reply.k = "throw" THEN {Throw(DB, reply.msg)}
        ELSE IF ~IsJson(cleanedText)
        THEN {Throw(DB, <<"Unexpected", "token", "in", "JSON">>)}
        ELSE IF Falsy(jsonData.name) \/ Falsy(jsonData.amount) \/ Falsy(jsonData.date)
                \/ Falsy(jsonData.category)
        THEN {Throw(DB, <<"AI", "returned", "incomplete", "data.">>)}
        ELSE {Return(DB, [Success EXCEPT !.data =
                            <<[jsonData EXCEPT !.category = category, !.date = Str(date)]>>]) :
                date \in dates}

\* The try block of scanReceipt; the outcomes differ in the rewritten date only.
scanReceiptTry(apiKey, image, reply) ==
    LET part == base64ToGenerativePart(image)
        cleanedText == CleanText(reply.text)
        jsonData == reply.json
        category == IF jsonData.category.s \in categories THEN jsonData.category
                    ELSE Str("Other")
        dates == IF MatchesDateRegex(jsonData.date.s) THEN {jsonData.date.s}
                 ELSE IF ParsedIsoDays(jsonData.date.s) = {} THEN Todays
                 ELSE ParsedIsoDays(jsonData.date.s)
    IN  IF ~apiKey
        THEN {Return(DB, Failure(<<"Gemini API key not configured. Please add GEMINI_API_KEY to your .env file.">>))}
        ELSE IF image = NoImage \/ ~StartsWithDataImage(image)
        THEN {Return(DB, Failure(<<"Invalid image format. Please select a valid image file.">>))}
        ELSE IF part.thrown THEN {part}
        ELSE IF reply.k = "throw" THEN {Throw(DB, reply.msg)}
        ELSE IF ~IsJson(cleanedText)
        THEN {Throw(DB, <<"Unexpected", "token", "in", "JSON">>)}
        ELSE IF Falsy(jsonData.name) \/ Falsy(jsonData.amount) \/ Falsy(jsonData.date)
                \/ Falsy(jsonData.category)
        THEN {Throw(DB, <<"AI", "returned", "incomplete", "data.">>)}
        ELSE IF jsonData.amount.t # "number" \/ jsonData.amount.n <= 0
        THEN {Throw(DB, <<"Invalid", "amount", "extracted", "from", "receipt.">>)}
        ELSE {Return(DB, [Success EXCEPT !.data =
                            <<[jsonData EXCEPT !.category = category, !.date = Str(date)]>>]) :
                date \in dates}

\* A catch block of scanReceipt without the class of denied permissions.
ScanCatchNoPermission(out) ==
    LET m == out.msg
    IN  IF ~out.thrown THEN out
        ELSE IF Includes(m, <<"API", "key">>) \/ Includes(m, <<"API_KEY">>)
        THEN Return(out.db, Failure(<<"Invalid API key. Please check your Gemini API configuration.">>))
        ELSE IF Includes(m, <<"JSON">>) \/ Includes(m, <<"parse">>)
        THEN Return(out.db, Failure(<<"Failed to parse AI response. Raw error">> \o m))
        ELSE IF Includes(m, <<"quota">>) \/ Includes(m, <<"limit">>) \/ Includes(m, <<"QUOTA">>)
        THEN Return(out.db, Failure(<<"API quota exceeded. Please try again later.">>))
        ELSE IF Includes(m, <<"INVALID_ARGUMENT">>)
        THEN Return(out.db, Failure(<<"Invalid image format. Please try with a different image.">>))
        ELSE IF Includes(m, <<"UNAVAILABLE">>) \/ Includes(m, <<"network">>)
        THEN Return(out.db, Failure(<<"Service temporarily unavailable. Please try again.">>))
        ELSE Return(out.db, Failure(<<"Scan failed">> \o m))

\* The catch block of scanReceipt: the message is classified by the substrings
\* it contains, in this order.
ScanCatch(out) ==
    LET m == out.msg
    IN  IF ~out.thrown THEN out
        ELSE IF Includes(m, <<"API", "key">>) \/ Includes(m, <<"API_KEY">>)
        THEN Return(out.db, Failure(<<"Invalid API key. Please check your Gemini API configuration.">>))
        ELSE IF Includes(m, <<"JSON">>) \/ Includes(m, <<"parse">>)
        THEN Return(out.db, Failure(<<"Failed to parse AI response. Raw error">> \o m))
        ELSE IF Includes(m, <<"quota">>) \/ Includes(m, <<"limit">>) \/ Includes(m, <<"QUOTA">>)
        THEN Return(out.db, Failure(<<"API quota exceeded. Please try again later.">>))
        ELSE IF Includes(m, <<"PERMISSION_DENIED">>)
        THEN Return(out.db, Failure(<<"API access denied. Please check your API key permissions.">>))
        ELSE IF Includes(m, <<"INVALID_ARGUMENT">>)
        THEN Return(out.db, Failure(<<"Invalid image format. Please try with a different image.">>))
        ELSE IF Includes(m, <<"UNAVAILABLE">>) \/ Includes(m, <<"network">>)
        THEN Return(out.db, Failure(<<"Service temporarily unavailable. Please try again.">>))
        ELSE Return(out.db, Failure(<<"Scan failed">> \o m))

\* A scanReceipt that stores what it extracted.
scanReceiptOutSaving(apiKey, image, reply) ==
    {LET o == ScanCatch(out)
     IN  IF o.ret.success /\ o.db.users # {}
         THEN [o EXCEPT !.db =
                  prismaCreate(o.db, <<"receipt">>, Num(o.ret.data[1].amount.n),
                               o.ret.data[1].category.s,
                               MkDate(2024, 10, 3, StartOfDayMs),
                               (CHOOSE u \in o.db.users : TRUE).id, NoFault).db]
         ELSE o : out \in scanReceiptTry(apiKey, image, reply)}

scanReceiptOut(apiKey, image, reply) ==
    {ScanCatch(out) : out \in scanReceiptTry(apiKey, image, reply)}

scanReceipt(apiKey, image, reply) ==
    \E out \in scanReceiptOut(apiKey, image, reply) :
        FinishCall("scanReceipt", NoUser, NoArgs, NoFault,
                   [apiKey |-> apiKey, image |-> image, reply |-> reply], out)

(***************************************************************************)
(* The authentication provider: an email address belongs to at most one    *)
(* account at a time, and an account may move to an address that is free.  *)
(***************************************************************************)
Emails == {"a@x.io", "b@x.io", "c@x.io"}

InitialProfile(id) ==
    IF id = "u1" THEN [email |-> "a@x.io", fullName |-> "Ann"]
    ELSE [email |-> "b@x.io", fullName |-> NoName]

ProviderOk(p) ==
    \A a, b \in UserIds : a # b /\ p[a].email # NoEmail => p[a].email # p[b].email

changeEmail(id, email) ==
    /\ email # profile[id].email
    /\ ProviderOk([profile EXCEPT ![id].email = email])
    /\ profile' = [profile EXCEPT ![id].email = email]
    /\ UNCHANGED <<users, transactions, nextId, res>>
    /\ UNCHANGED client

(***************************************************************************)
(* Inputs.                                                                 *)
(***************************************************************************)
Callers == UserIds \cup {NoUser}

Ids == 1..MaxIds

FormData(name, amount, category, date) ==
    [name |-> name, amount |-> amount, category |-> category, date |-> date]

NameTea == <<" ", "T", "e", "a", " ">>

NameRent == <<"R", "e", "n", "t">>

Amount450 == <<"4", ".", "5", "0">>

Amount12 == <<"1", "2">>

AmountNeg == <<"-", "1", "0", "0">>

Nov3Noon == MkDate(2024, 10, 3, NoonMs)

Nov4 == MkDate(2024, 10, 4, StartOfDayMs)

\* The forms of the main specification: two valid ones and one with a bad amount.
FormTea == FormData(NameTea, Amount450, "Food", Nov3Noon)

FormRent == FormData(NameRent, Amount12, "Other", Nov4)

FormNeg == FormData(NameRent, AmountNeg, "Shopping", Nov4)

Forms == {FormTea, FormRent, FormNeg}

Ranges == {<<Nov3Noon, Nov3Noon>>, <<Nov3Noon, Nov4>>}

NoCall ==
    [op |-> "none", caller |-> NoUser, args |-> NoArgs, fault |-> NoFault,
     scan |-> NoScan, thrown |-> FALSE, ret |-> Success]

(***************************************************************************)
(* The browser session of one signed-in user: the records page with its    *)
(* transaction modal, the "Add with AI" modal, and the reports page.       *)
(* A call of a server action is in flight between the event that issues it *)
(* and the step in which it returns; the server runs it in that step.      *)
(***************************************************************************)
\* Scans, reset timers and loads in flight at a time in the model; SpecUi holds
\* the calls of the records page to the same number.
MaxInFlight == 1

SessionUser == "u1"

\* new Date(): the current instant.
Now == MkDate(2024, 10, 15, NoonMs)

Range(s) == {s[i] : i \in DOMAIN s}

\* The sequence without its i-th element.
RemoveAt(s, i) == SubSeq(s, 1, i - 1) \o SubSeq(s, i + 1, Len(s))

NoEvent == [name |-> "none", origin |-> ""]

Event(name, origin) == [name |-> name, origin |-> origin]

\* loadTransactions of the records page: the list is replaced when
\* getTransactions succeeds and kept otherwise.  (The monthly total shown on
\* the page is not part of the model.)
loadTransactions(db, shown) ==
    LET o == CHOOSE o \in getTransactionsOut(db, SessionUser, NoFault) : TRUE
    IN  [db |-> o.db,
         shown |-> IF o.ret.success THEN Range(o.ret.transactions) ELSE shown]

\* useState of RecordsPage and of AddWithAiModal.
PageInit ==
    [transactions |-> {}, editingTransaction |-> <<>>, isModalOpen |-> FALSE,
     calls |-> <<>>]

ModalInit ==
    [modalOpen |-> FALSE, step |-> "choose", aiData |-> <<>>, errorMessage |-> <<>>,
     scans |-> <<>>, timers |-> 0]

\* The page is (re)loaded in the browser: both components are mounted anew and
\* the mount effect loads the list.
PageMount ==
    LET l == loadTransactions(DB, {})
    IN  /\ page' = [PageInit EXCEPT !.transactions = l.shown]
        /\ modal' = ModalInit
        /\ ev' = Event("mount", "")
        /\ users' = l.db.users
        /\ UNCHANGED <<transactions, nextId, profile, res, reports>>

\* An event that changes the records page only.
PageEvent(name, next) ==
    /\ page' = next
    /\ ev' = Event(name, "")
    /\ UNCHANGED <<users, transactions, nextId, profile, res, modal, reports>>

handleAddTransaction ==
    PageEvent("handleAddTransaction",
              [page EXCEPT !.editingTransaction = <<>>, !.isModalOpen = TRUE])

handleEditTransaction(t) ==
    /\ t \in page.transactions
    /\ PageEvent("handleEditTransaction",
                 [page EXCEPT !.editingTransaction = <<t>>, !.isModalOpen = TRUE])

\* onClose of the transaction modal (its close control, Escape, outside click).
TransactionModalClose ==
    /\ page.isModalOpen
    /\ PageEvent("onClose", [page EXCEPT !.isModalOpen = FALSE])

\* handleSubmitTransaction up to its first await: the call is an update when a
\* transaction is being edited and a create otherwise.
SubmitCall(origin, data) ==
    IF page.editingTransaction # <<>>
    THEN [origin |-> origin, op |-> "updateTransaction",
          id |-> page.editingTransaction[1].id, data |-> data]
    ELSE [origin |-> origin, op |-> "createTransaction", id |-> 0, data |-> data]

\* handleSubmit of the transaction modal: onSubmit(formData) is not awaited, and
\* the modal closes.
TransactionModalSubmit(data) ==
    /\ page.isModalOpen
    /\ trim(data.name) # <<>>
    /\ data.amount # <<>>
    /\ PageEvent("handleSubmit",
                 [page EXCEPT !.calls = Append(@, SubmitCall("form", data)),
                              !.isModalOpen = FALSE])

\* handleDeleteTransaction, confirmed, up to its await.
handleDeleteTransaction(t) ==
    /\ t \in page.transactions
    /\ PageEvent("handleDeleteTransaction",
                 [page EXCEPT !.calls = Append(@,
                     [origin |-> "delete", op |-> "deleteTransaction", id |-> t.id,
                      data |-> FormData(<<>>, <<>>, "", NoDate)])])

\* The server action of a call of the page, with the collaborator that throws
\* in it, if any.
PageCallOutWith(c, fault) ==
    IF c.op = "updateTransaction"
    THEN updateTransactionOut(DB, SessionUser, c.id, c.data, fault)
    ELSE IF c.op = "createTransaction"
    THEN createTransactionOut(DB, SessionUser, c.data, fault)
    ELSE deleteTransactionOut(DB, SessionUser, c.id, fault)

PageCallOut(c) == PageCallOutWith(c, NoFault)

\* resetModal
resetModal(m) == [m EXCEPT !.step = "choose", !.aiData = <<>>, !.errorMessage = <<>>]

\* closeAndReset: the dialog closes at once, resetModal runs 300 ms later.
closeAndReset(m) == [m EXCEPT !.modalOpen = FALSE, !.timers = @ + 1]

\* A call of the page returns.  handleSubmitTransaction and
\* handleDeleteTransaction reload the list on success and alert otherwise; then
\* handleConfirmData, for a call it made, closes the AI modal and calls
\* onTransactionSaved (loadTransactions) whatever the result was.
PageCallReturnWith(i, fault) ==
    LET c == page.calls[i]
        out == PageCallOutWith(c, fault)
        reload == out.ret.success \/ c.origin = "ai"
        l == IF reload THEN loadTransactions(out.db, page.transactions)
             ELSE [db |-> out.db, shown |-> page.transactions]
    IN  /\ i \in DOMAIN page.calls
        /\ out.db.nextId <= MaxIds + 1
        /\ c.origin = "ai" => modal.timers < MaxInFlight
        /\ Call(c.op, SessionUser, FormArgs(c.id, c.data), fault, NoScan,
                [out EXCEPT !.db = l.db])
        /\ page' = [page EXCEPT !.calls = RemoveAt(@, i), !.transactions = l.shown]
        /\ modal' = IF c.origin = "ai" THEN closeAndReset(modal) ELSE modal
        /\ ev' = Event("return", c.origin)
        /\ UNCHANGED reports

PageCallReturn(i) == PageCallReturnWith(i, NoFault)

\* An event that changes the AI modal only.
ModalEvent(name, next) ==
    /\ modal' = next
    /\ ev' = Event(name, "")
    /\ UNCHANGED <<users, transactions, nextId, profile, res, page, reports>>

\* The dialog trigger "Add with AI".
ModalOpen ==
    /\ ~modal.modalOpen
    /\ ModalEvent("open", [modal EXCEPT !.modalOpen = TRUE])

\* The close control of the dialog: onOpenChange(false) only.
ModalCloseControl ==
    /\ modal.modalOpen
    /\ ModalEvent("close", [modal EXCEPT !.modalOpen = FALSE])

\* Outside click or Escape: closeAndReset.
ModalDismiss ==
    /\ modal.modalOpen
    /\ modal.timers < MaxInFlight
    /\ ModalEvent("dismiss", closeAndReset(modal))

\* The timeout of a closeAndReset fires.
ModalResetTimer ==
    /\ modal.timers > 0
    /\ ModalEvent("timer", [resetModal(modal) EXCEPT !.timers = @ - 1])

\* The buttons "Camera" and "Back".
ModalChooseCamera ==
    /\ modal.modalOpen /\ modal.step = "choose"
    /\ ModalEvent("camera", [modal EXCEPT !.step = "capture"])

ModalBack ==
    /\ modal.modalOpen /\ modal.step = "capture"
    /\ ModalEvent("back", [modal EXCEPT !.step = "choose"])

\* "Try Again" of the steps confirm and error.
ModalTryAgain ==
    /\ modal.modalOpen /\ modal.step \in {"confirm", "error"}
    /\ ModalEvent("tryAgain", resetModal(modal))

\* processImage up to its await.
processImage(m, image) == [m EXCEPT !.step = "loading", !.scans = Append(@, image)]

\* The largest file the gallery path accepts, in bytes.
MaxFileSize == 10 * 1024 * 1024

\* A file of the gallery: its declared type, its size, and the data URL the
\* FileReader makes of it.
File(type, size, url) == [type |-> type, size |-> size, url |-> url]

\* handleFileSelect, with the FileReader's onloadend.
handleFileSelect(file) ==
    /\ modal.modalOpen /\ modal.step = "choose"
    /\ Len(modal.scans) < MaxInFlight
    /\ ModalEvent("handleFileSelect",
          IF ~StartsWith(file.type, <<"image/">>)
          THEN [modal EXCEPT !.errorMessage = <<"Please select a valid image file.">>,
                             !.step = "error"]
          ELSE IF file.size > MaxFileSize
          THEN [modal EXCEPT !.errorMessage =
                    <<"Image file is too large. Please select an image smaller than 10MB.">>,
                             !.step = "error"]
          ELSE processImage(modal, file.url))

\* handleCapture with a screenshot of the webcam (nothing happens without one).
handleCapture(imageSrc) ==
    /\ modal.modalOpen /\ modal.step = "capture"
    /\ Len(modal.scans) < MaxInFlight
    /\ ModalEvent("handleCapture", processImage(modal, imageSrc))

\* processImage after its await: the scan of the i-th image in flight returns.
ScanReturn(i, reply) ==
    /\ i \in DOMAIN modal.scans
    /\ \E out \in scanReceiptOut(TRUE, modal.scans[i], reply) :
          /\ Call("scanReceipt", NoUser, NoArgs, NoFault,
                  [apiKey |-> TRUE, image |-> modal.scans[i], reply |-> reply], out)
          /\ modal' =
                IF out.ret.success /\ out.ret.data # <<>>
                THEN [modal EXCEPT !.scans = RemoveAt(@, i), !.aiData = out.ret.data,
                                   !.step = "confirm"]
                ELSE [modal EXCEPT !.scans = RemoveAt(@, i),
                                   !.errorMessage =
                                       IF out.ret.error = <<>>
                                       THEN <<"An unknown error occurred.">>
                                       ELSE out.ret.error,
                                   !.step = "error"]
    /\ ev' = Event("scanReturn", "")
    /\ UNCHANGED <<page, reports>>

\* The characters of the names the extraction provider answers.
CharsOf(s) ==
    IF s = "Cafe" THEN <<"C", "a", "f", "e">>
    ELSE IF s = "" THEN <<>>
    ELSE <<"?">>

\* new Date("YYYY-MM-DD"): midnight of the day.
ParseIsoDay(text) ==
    IF text = "2024-11-03" THEN MkDate(2024, 10, 3, StartOfDayMs)
    ELSE IF text = "2024-11-02" THEN MkDate(2024, 10, 2, StartOfDayMs)
    ELSE IF text = "2024-11-15" THEN MkDate(2024, 10, 15, StartOfDayMs)
    ELSE NoDate

\* handleConfirmData: the scan data as a transaction form.
ConfirmForm(aiData) ==
    FormData(CharsOf(aiData.name.s),
             IF Falsy(aiData.amount) THEN <<"0">> ELSE toString(Num(aiData.amount.n)),
             IF Falsy(aiData.category) THEN "Other" ELSE aiData.category.s,
             IF Falsy(aiData.date) THEN Now ELSE ParseIsoDay(aiData.date.s))

\* handleConfirmData ("Save Transaction") up to the await of
\* onSubmitTransaction, which is handleSubmitTransaction of the page.
handleConfirmData ==
    /\ modal.modalOpen /\ modal.step = "confirm" /\ modal.aiData # <<>>
    /\ page' = [page EXCEPT !.calls =
                   Append(@, SubmitCall("ai", ConfirmForm(modal.aiData[1])))]
    /\ ev' = Event("handleConfirmData", "ai")
    /\ UNCHANGED <<users, transactions, nextId, profile, res, modal, reports>>

(***************************************************************************)
(* The reports page.                                                       *)
(***************************************************************************)
Presets == {"thisMonth", "last3Months", "thisYear"}

Window(startDate, endDate) == [startDate |-> startDate, endDate |-> endDate]

NoWindow == Window(NoDate, NoDate)

\* useState of ReportsPage; shownFor is the window of the load whose result is
\* the list on display.
ReportsInit ==
    [selectedPeriod |-> "thisMonth", customStartDate |-> NoDate,
     customEndDate |-> NoDate, customRangeOpen |-> FALSE, transactions |-> <<>>,
     isLoading |-> TRUE, loads |-> <<>>, shownFor |-> NoWindow]

\* The memo { startDate, endDate } of the selected period.
DateRange(r) ==
    IF r.selectedPeriod = "thisMonth" THEN Window(startOfMonth(Now), endOfMonth(Now))
    ELSE IF r.selectedPeriod = "last3Months"
    THEN Window(startOfMonth(subMonths(Now, 2)), endOfMonth(Now))
    ELSE IF r.selectedPeriod = "thisYear" THEN Window(startOfYear(Now), endOfYear(Now))
    ELSE Window(IF r.customStartDate = NoDate THEN Now ELSE r.customStartDate,
                IF r.customEndDate = NoDate THEN Now ELSE r.customEndDate)

\* The effect on [startDate, endDate]: loadTransactions up to its await.
StartLoad(r) == [r EXCEPT !.isLoading = TRUE, !.loads = Append(@, DateRange(r))]

\* An event of the reports page.
ReportsEvent(name, next) ==
    /\ reports' = next
    /\ ev' = Event(name, "")
    /\ UNCHANGED <<users, transactions, nextId, profile, res, page, modal>>

\* The page is opened: the mount effect loads the window of this month.
ReportsMount == ReportsEvent("mountReports", StartLoad(ReportsInit))

\* The buttons of the preset periods.
setSelectedPeriod(p) ==
    /\ p # reports.selectedPeriod
    /\ ReportsEvent("setSelectedPeriod", StartLoad([reports EXCEPT !.selectedPeriod = p]))

\* The popover of the custom range opens or closes.
setCustomRangeOpen ==
    ReportsEvent("setCustomRangeOpen", [reports EXCEPT !.customRangeOpen = ~@])

\* A day is picked in the calendar of the start date; the memo is recomputed.
setCustomStartDate(d) ==
    /\ reports.customRangeOpen
    /\ d # reports.customStartDate
    /\ ReportsEvent("setCustomStartDate", StartLoad([reports EXCEPT !.customStartDate = d]))

\* A day is picked in the calendar of the end date, where the days before the
\* start date are disabled.
setCustomEndDate(d) ==
    /\ reports.customRangeOpen
    /\ d # reports.customEndDate
    /\ reports.customStartDate # NoDate => ~DateLT(d, reports.customStartDate)
    /\ ReportsEvent("setCustomEndDate", StartLoad([reports EXCEPT !.customEndDate = d]))

\* The button "Apply", enabled for a complete range with start <= end.
handleCustomRangeApply ==
    LET next == [reports EXCEPT !.selectedPeriod = "custom", !.customRangeOpen = FALSE]
    IN  /\ reports.customRangeOpen
        /\ reports.customStartDate # NoDate
        /\ reports.customEndDate # NoDate
        /\ DateLE(reports.customStartDate, reports.customEndDate)
        /\ ReportsEvent("handleCustomRangeApply",
                        IF reports.selectedPeriod = "custom" THEN next ELSE StartLoad(next))

\* loadTransactions after its await: the i-th load in flight returns.
LoadReturn(i) ==
    /\ i \in DOMAIN reports.loads
    /\ LET w == reports.loads[i]
       IN  \E out \in getTransactionsByDateRangeOut(DB, SessionUser, w.startDate,
                                                    w.endDate, NoFault) :
              /\ Call("getTransactionsByDateRange", SessionUser,
                      [NoArgs EXCEPT !.date = w.startDate, !.endDate = w.endDate],
                      NoFault, NoScan, out)
              /\ reports' =
                    IF out.ret.success
                    THEN [reports EXCEPT !.loads = RemoveAt(@, i), !.isLoading = FALSE,
                                         !.transactions = out.ret.transactions,
                                         !.shownFor = w]
                    ELSE [reports EXCEPT !.loads = RemoveAt(@, i), !.isLoading = FALSE]
    /\ ev' = Event("loadReturn", "")
    /\ UNCHANGED <<page, modal>>

\* reduce((sum, t) => sum + t.amount, 0), in units of 10^-FracDigits.
RECURSIVE SumList(_)
SumList(list) == IF list = <<>> THEN 0 ELSE Head(list).amount.v + SumList(Tail(list))

totalSpending(list) == Num(SumList(list))

\* The reduce of categoryData: one entry per category, in the order of first
\* appearance, each transaction added to the entry of its category.
RECURSIVE GroupByCategory(_)
GroupByCategory(list) ==
    IF list = <<>> THEN <<>>
    ELSE LET acc == GroupByCategory(SubSeq(list, 1, Len(list) - 1))
             t == list[Len(list)]
         IN  IF \E i \in DOMAIN acc : acc[i].category = t.category
             THEN [i \in DOMAIN acc |->
                      IF acc[i].category = t.category
                      THEN [acc[i] EXCEPT !.value = Num(@.v + t.amount.v)]
                      ELSE acc[i]]
             ELSE Append(acc, [category |-> t.category, value |-> t.amount])

\* Array.prototype.sort((a, b) => b.key - a.key) on <<key, item>> pairs: by
\* non-increasing key, equal keys in their original order.
RECURSIVE InsertByKey(_, _)
InsertByKey(sorted, p) ==
    IF sorted = <<>> THEN <<p>>
    ELSE IF Head(sorted)[1] >= p[1] THEN <<Head(sorted)>> \o InsertByKey(Tail(sorted), p)
    ELSE <<p>> \o sorted

RECURSIVE SortByKeyDesc(_)
SortByKeyDesc(ps) ==
    IF ps = <<>> THEN <<>>
    ELSE InsertByKey(SortByKeyDesc(SubSeq(ps, 1, Len(ps) - 1)), ps[Len(ps)])

\* A breakdown with one entry per transaction instead of one per category.
categoryDataUngrouped(list) ==
    LET sorted == SortByKeyDesc([i \in DOMAIN list |->
                      <<list[i].amount.v,
                        [category |-> list[i].category, value |-> list[i].amount]>>])
    IN  [i \in DOMAIN sorted |-> sorted[i][2]]

categoryData(list) ==
    LET grouped == GroupByCategory(list)
        sorted == SortByKeyDesc([i \in DOMAIN grouped |-> <<grouped[i].value.v, grouped[i]>>])
    IN  [i \in DOMAIN sorted |-> sorted[i][2]]

\* The number of top expenses shown.
TopCount == 10

\* Top expenses whose sort puts equal amounts in the reverse of the list order.
topExpensesTiesReversed(list) ==
    LET rev == [i \in DOMAIN list |-> list[Len(list) + 1 - i]]
        sorted == SortByKeyDesc([i \in DOMAIN rev |-> <<rev[i].amount.v, rev[i]>>])
        n == IF Len(sorted) < TopCount THEN Len(sorted) ELSE TopCount
    IN  [i \in 1..n |-> sorted[i][2]]

topExpenses(list) ==
    LET sorted == SortByKeyDesc([i \in DOMAIN list |-> <<list[i].amount.v, list[i]>>])
        n == IF Len(sorted) < TopCount THEN Len(sorted) ELSE TopCount
    IN  [i \in 1..n |-> sorted[i][2]]

\* The bucket unit trendData takes for the selected period.
Granularity(period) ==
    IF period = "thisMonth" THEN "day"
    ELSE IF period = "last3Months" THEN "week"
    ELSE "month"

\* The bucket starts of trendData.
Intervals(r) ==
    LET w == DateRange(r)
    IN  IF r.selectedPeriod = "thisMonth" THEN eachDayOfInterval(w.startDate, w.endDate)
        ELSE IF r.selectedPeriod = "last3Months"
        THEN eachWeekOfInterval(w.startDate, w.endDate)
        ELSE eachMonthOfInterval(w.startDate, w.endDate)

\* Buckets that include their end instant.
InBucketClosed(list, from, to) ==
    SelectSeq(list, LAMBDA t : DateLE(from, t.date) /\ DateLE(t.date, to))

\* The transactions dated in [from, to).
InBucket(list, from, to) ==
    SelectSeq(list, LAMBDA t : DateLE(from, t.date) /\ DateLT(t.date, to))

\* trendData: no point at all for an empty list, else one point per bucket.
trendData(r) ==
    LET intervals == Intervals(r)
    IN  IF r.transactions = <<>> THEN <<>>
        ELSE [i \in DOMAIN intervals |->
                 [date |-> intervals[i],
                  amount |-> Num(SumList(InBucket(
                      r.transactions, intervals[i],
                      AddUnit(intervals[i], Granularity(r.selectedPeriod)))))]]

Init ==
    /\ users = {}
    /\ transactions = {}
    /\ nextId = 1
    /\ profile = [id \in UserIds |-> InitialProfile(id)]
    /\ res = NoCall
    /\ page = PageInit
    /\ modal = ModalInit
    /\ reports = ReportsInit
    /\ ev = NoEvent

(***************************************************************************)
(* Spec: the collaborators answer every call (no fault).                   *)
(***************************************************************************)
\* A signed-in caller sends every form; without identity one call of each
\* operation is made.
Create ==
    \/ \E c \in UserIds, d \in Forms : createTransaction(c, d, NoFault)
    \/ createTransaction(NoUser, FormTea, NoFault)

Update ==
    \/ \E c \in UserIds, id \in Ids, d \in Forms : updateTransaction(c, id, d, NoFault)
    \/ updateTransaction(NoUser, 1, FormRent, NoFault)

Delete ==
    \/ \E c \in UserIds, id \in Ids : deleteTransaction(c, id, NoFault)
    \/ deleteTransaction(NoUser, 1, NoFault)

List == \E c \in Callers : getTransactions(c, NoFault)

MonthlyTotal == \E c \in Callers : getMonthlyTotal(c, Nov4, NoFault)

ListByDateRange ==
    \/ \E c \in UserIds, r \in Ranges : getTransactionsByDateRange(c, r[1], r[2], NoFault)
    \/ getTransactionsByDateRange(NoUser, Nov3Noon, Nov4, NoFault)

\* The first account moves to a new address; the second may then take the
\* address the first has left.
ChangeEmail ==
    \/ changeEmail("u1", "c@x.io")
    \/ changeEmail("u2", "a@x.io")

Next ==
    \/ Create
    \/ Update
    \/ Delete
    \/ List
    \/ MonthlyTotal
    \/ ListByDateRange
    \/ ChangeEmail

Spec == Init /\ [][Next]_vars

(***************************************************************************)
(* SpecForms: one signed-in account sends forms with every amount text and *)
(* category of the model; name and date are fixed.                         *)
(***************************************************************************)
AmountTexts ==
    {Amount450, Amount12, AmountNeg,
     <<"0">>,
     <<".", "5">>,
     <<"a", "b", "c">>,
     <<"1", "2", "a", "b", "c">>,
     InfinityText,
     <<>>}

FormCategories == {"Food", "Misc"}

AmountForms ==
    {FormData(NameTea, a, c, Nov3Noon) : a \in AmountTexts, c \in FormCategories}

FormsCreate ==
    \/ \E d \in AmountForms : createTransaction("u1", d, NoFault)
    \/ \E c \in FormCategories :
          createTransaction(NoUser, FormData(NameTea, Amount450, c, Nov3Noon), NoFault)

FormsUpdate == \E id \in Ids, d \in AmountForms : updateTransaction("u1", id, d, NoFault)

FormsList == getTransactions("u1", NoFault)

NextForms ==
    \/ FormsCreate
    \/ FormsUpdate
    \/ FormsList

SpecForms == Init /\ [][NextForms]_vars

(***************************************************************************)
(* SpecDates: one signed-in account, stored dates around the ends of       *)
(* months at several times of day.                                         *)
(***************************************************************************)
Oct31Late == MkDate(2024, 9, 31, EndOfDayMs)

Nov1 == MkDate(2024, 10, 1, StartOfDayMs)

Nov30 == MkDate(2024, 10, 30, StartOfDayMs)

Nov30Noon == MkDate(2024, 10, 30, NoonMs)

Nov30Late == MkDate(2024, 10, 30, EndOfDayMs)

Dec1 == MkDate(2024, 11, 1, StartOfDayMs)

Dec31Noon == MkDate(2024, 11, 31, NoonMs)

StoredDates == {Oct31Late, Nov1, Nov30, Nov30Noon, Nov30Late, Dec1, Dec31Noon}

DateForms ==
    {FormData(NameRent, Amount450, "Food", d) : d \in StoredDates}
        \cup {FormData(NameRent, Amount12, "Food", Nov30Noon)}

Months == {Nov3Noon, Dec31Noon, MkDate(2024, 1, 10, NoonMs)}

DayRanges == {<<Nov30Noon, Nov30>>, <<Nov1, Nov1>>, <<Nov1, Nov30>>}

DatesCreate == \E d \in DateForms : createTransaction("u1", d, NoFault)

DatesDelete == \E id \in Ids : deleteTransaction("u1", id, NoFault)

DatesMonthlyTotal == \E m \in Months : getMonthlyTotal("u1", m, NoFault)

DatesListByDateRange ==
    \E r \in DayRanges : getTransactionsByDateRange("u1", r[1], r[2], NoFault)

NextDates ==
    \/ DatesCreate
    \/ DatesDelete
    \/ DatesMonthlyTotal
    \/ DatesListByDateRange

SpecDates == Init /\ [][NextDates]_vars

(***************************************************************************)
(* SpecFault: at most one collaborator call of an operation throws.        *)
(***************************************************************************)
Faults ==
    {NoFault} \cup
    {Fault(at, m) : at \in {"auth", "ensureUser", "query", "revalidatePath"},
                    m \in FaultMessages}

PngImage == Image("data:", "image/png", TRUE, TRUE, "iVBORw0KGgo")

Images ==
    {PngImage, NoImage,
     Image("data:", "text/plain", TRUE, TRUE, "aGVsbG8"),
     Image("data:", "image/png", TRUE, FALSE, ""),
     Image("data:", "image/jpeg", FALSE, TRUE, "AAAA"),
     Image("data:", "image/png", TRUE, TRUE, LargeData)}

GoodJson == JsonObject(Str("Cafe"), JsonNumber(1234), Str("2024-11-03"), Str("Food"))

Jsons ==
    {GoodJson,
     [GoodJson EXCEPT !.name = Missing],
     [GoodJson EXCEPT !.name = Str("")],
     [GoodJson EXCEPT !.amount = Missing],
     [GoodJson EXCEPT !.date = Missing],
     [GoodJson EXCEPT !.category = Missing],
     [GoodJson EXCEPT !.category = Str("Coffee"), !.date = Str("Nov 3, 2024")],
     [GoodJson EXCEPT !.amount = JsonNumber(0)],
     [GoodJson EXCEPT !.amount = JsonNumber(-500)],
     [GoodJson EXCEPT !.amount = Str("12.34")],
     [GoodJson EXCEPT !.category = Str("Coffee")],
     [GoodJson EXCEPT !.date = Str("Nov 3, 2024")],
     [GoodJson EXCEPT !.date = Str("yesterday")]}

Replies ==
    {ReplyThrow(m) : m \in {<<>>, <<"fetch", "failed">>, <<"API", "key", "not", "valid">>,
                            <<"429", "quota", "exceeded">>, <<"503", "UNAVAILABLE">>,
                            <<"rate", "limit", "reached">>, <<"403", "PERMISSION_DENIED">>,
                            <<"400", "INVALID_ARGUMENT">>, <<"network", "error">>,
                            <<"API_KEY", "over", "quota">>, <<"parse", "error">>}}
        \cup {ReplyText(<<"FENCE-json", "\n", JsonText, "\n", "FENCE">>, j) : j \in Jsons}
        \cup {ReplyText(<<JsonText>>, GoodJson),
              ReplyText(<<"Sorry,", "no", "receipt">>, NoJson)}

\* A signed-in caller meets every fault; without identity, none or a throwing auth().
FaultCalls ==
    {<<"u1", f>> : f \in Faults} \cup {<<NoUser, f>> : f \in {NoFault, Fault("auth", "")}}

FaultCreate == \E c \in FaultCalls : createTransaction(c[1], FormTea, c[2])

FaultUpdate == \E c \in FaultCalls, id \in Ids : updateTransaction(c[1], id, FormRent, c[2])

FaultDelete == \E c \in FaultCalls, id \in Ids : deleteTransaction(c[1], id, c[2])

FaultList == \E c \in FaultCalls : getTransactions(c[1], c[2])

FaultMonthlyTotal == \E c \in FaultCalls : getMonthlyTotal(c[1], Nov4, c[2])

FaultListByDateRange ==
    \E c \in FaultCalls : getTransactionsByDateRange(c[1], Nov3Noon, Nov4, c[2])

\* Every reply for a good image and key, every image for a good reply, and a
\* missing key.
ScanCalls ==
    {<<TRUE, PngImage, r>> : r \in Replies}
        \cup {<<TRUE, i, ReplyText(<<JsonText>>, GoodJson)>> : i \in Images}
        \cup {<<FALSE, PngImage, ReplyText(<<JsonText>>, GoodJson)>>}

ScanReceipt == \E c \in ScanCalls : scanReceipt(c[1], c[2], c[3])

NextFault ==
    \/ FaultCreate
    \/ FaultUpdate
    \/ FaultDelete
    \/ FaultList
    \/ FaultMonthlyTotal
    \/ FaultListByDateRange
    \/ ScanReceipt

SpecFault == Init /\ [][NextFault]_vars

(***************************************************************************)
(* SpecUi: the records page and the AI modal of one signed-in user, every  *)
(* collaborator answering.                                                 *)
(***************************************************************************)
PngFile == File(<<"image/", "png">>, 2048, PngImage)

Files ==
    {PngFile,
     File(<<"text/", "plain">>, 2048, Image("data:", "text/plain", TRUE, TRUE, "aGVsbG8")),
     File(<<"image/", "png">>, MaxFileSize + 1, PngImage)}

\* getScreenshot of the webcam.
JpegShot == Image("data:", "image/jpeg", TRUE, TRUE, "AAAA")

UiReplies ==
    {ReplyText(<<JsonText>>, GoodJson), ReplyThrow(<<"503", "UNAVAILABLE">>)}

UiMount == PageMount

UiAdd == handleAddTransaction

UiEdit == \E t \in page.transactions : handleEditTransaction(t)

UiClose == TransactionModalClose

UiSubmit == Len(page.calls) < MaxInFlight /\ TransactionModalSubmit(FormRent)

UiConfirm == Len(page.calls) < MaxInFlight /\ handleConfirmData

UiCallReturn == \E i \in DOMAIN page.calls : PageCallReturn(i)

UiFileSelect == \E f \in Files : handleFileSelect(f)

UiCapture == handleCapture(JpegShot)

UiScanReturn == \E i \in DOMAIN modal.scans, r \in UiReplies : ScanReturn(i, r)

NextUi ==
    \/ UiMount
    \/ UiAdd
    \/ UiEdit
    \/ UiClose
    \/ UiSubmit
    \/ UiCallReturn
    \/ ModalOpen
    \/ ModalCloseControl
    \/ ModalDismiss
    \/ ModalResetTimer
    \/ ModalChooseCamera
    \/ ModalBack
    \/ ModalTryAgain
    \/ UiFileSelect
    \/ UiCapture
    \/ UiScanReturn
    \/ UiConfirm

SpecUi == Init /\ [][NextUi]_vars

(***************************************************************************)
(* SpecReports: the reports page of one signed-in user, whose transactions *)
(* are created from another page while the reports are open.               *)
(***************************************************************************)
Nov3 == MkDate(2024, 10, 3, StartOfDayMs)

Sep10Noon == MkDate(2024, 8, 10, NoonMs)

ReportForms ==
    {FormTea, FormRent, FormData(NameRent, Amount12, "Food", Sep10Noon)}

\* The days picked in the calendars.
CustomDays == {Nov3, Nov4}

ReportsCreate == \E d \in ReportForms : createTransaction(SessionUser, d, NoFault)

ReportsSelect ==
    Len(reports.loads) < MaxInFlight /\ \E p \in Presets : setSelectedPeriod(p)

ReportsStart ==
    Len(reports.loads) < MaxInFlight /\ \E d \in CustomDays : setCustomStartDate(d)

ReportsEnd ==
    Len(reports.loads) < MaxInFlight /\ \E d \in CustomDays : setCustomEndDate(d)

ReportsApply == Len(reports.loads) < MaxInFlight /\ handleCustomRangeApply

ReportsLoadReturn == \E i \in DOMAIN reports.loads : LoadReturn(i)

NextReports ==
    \/ ReportsCreate
    \/ ReportsMount
    \/ ReportsSelect
    \/ setCustomRangeOpen
    \/ ReportsStart
    \/ ReportsEnd
    \/ ReportsApply
    \/ ReportsLoadReturn

SpecReports == Init /\ [][NextReports]_vars

(***************************************************************************)
(* SpecPage: the records page alone, with more than one of its calls in    *)
(* flight.                                                                 *)
(***************************************************************************)
\* Calls of the records page in flight at a time.
MaxCalls == 2

PageForms == {FormTea, FormRent}

PageSubmit ==
    /\ Len(page.calls) < MaxCalls
    /\ \E d \in PageForms : TransactionModalSubmit(d)

PageDelete ==
    /\ Len(page.calls) < MaxCalls
    /\ \E t \in page.transactions : handleDeleteTransaction(t)

NextPage ==
    \/ UiMount
    \/ UiAdd
    \/ UiEdit
    \/ UiClose
    \/ PageSubmit
    \/ PageDelete
    \/ UiCallReturn

SpecPage == Init /\ [][NextPage]_vars

(***************************************************************************)
(* SpecLists: the derived views of the reports page as functions of the    *)
(* list on display, which is drawn from the lists below.                   *)
(***************************************************************************)
\* The longest list of one category, and the longest list of mixed categories.
MaxLong == 11

MaxShort == 3

ListRow(i, amount, category) ==
    [id |-> i, name |-> NameRent, amount |-> Num(amount), category |-> category,
     date |-> Nov3Noon, userId |-> SessionUser]

ListAmounts == {450, 1200}

ListCategories == {"Food", "Other", "Sport"}

LongLists ==
    UNION {{[i \in 1..n |-> ListRow(i, a[i], "Food")] : a \in [1..n -> ListAmounts]} :
              n \in 0..MaxLong}

ShortLists ==
    UNION {{[i \in 1..n |-> ListRow(i, a[i], c[i])] :
               a \in [1..n -> ListAmounts], c \in [1..n -> ListCategories]} :
              n \in 0..MaxShort}

InitLists ==
    /\ users = {}
    /\ transactions = {}
    /\ nextId = 1
    /\ profile = [id \in UserIds |-> InitialProfile(id)]
    /\ res = NoCall
    /\ page = PageInit
    /\ modal = ModalInit
    /\ ev = NoEvent
    /\ \E list \in LongLists \cup ShortLists :
          reports = [ReportsInit EXCEPT !.transactions = list, !.isLoading = FALSE,
                                        !.shownFor = DateRange(ReportsInit)]

\* The views are recomputed for another period, and for the list the load of
\* that period returns.
ListsSelect == Len(reports.loads) < MaxInFlight /\ setSelectedPeriod("thisYear")

ListsLoadReturn == LoadReturn(1)

NextLists ==
    \/ ListsSelect
    \/ ListsLoadReturn

SpecLists == InitLists /\ [][NextLists]_vars

(***************************************************************************)
(* Vocabulary of the properties.                                           *)
(***************************************************************************)
\* The step is a call of a public operation, recorded in res'.
CallStep == profile' = profile

SignedIn(call) == call.caller \in UserIds

TransactionOps ==
    {"createTransaction", "updateTransaction", "deleteTransaction", "getTransactions",
     "getMonthlyTotal", "getTransactionsByDateRange"}

\* The whole text is a decimal literal, sign allowed.
IsDecimalText(text) ==
    LET body == IF text # <<>> /\ Head(text) \in {"-", "+"} THEN Tail(text) ELSE text
        ip == DigitRun(body)
        rest == Drop(body, Len(ip))
        dot == rest # <<>> /\ Head(rest) = "."
        fp == IF dot THEN DigitRun(Tail(rest)) ELSE <<>>
    IN  /\ Len(body) = Len(ip) + (IF dot THEN 1 + Len(fp) ELSE 0)
        /\ ip # <<>> \/ fp # <<>>

\* The text of a finite number greater than 0.
IsPositiveNumberText(text) ==
    /\ IsDecimalText(text)
    /\ Head(text) # "-"
    /\ \E i \in 1..Len(text) : IsDigit(text[i]) /\ text[i] # "0"

\* t is text without the white space at its ends.
IsTrimOf(t, text) ==
    /\ \E i, j \in 0..Len(text) :
          /\ i + j <= Len(text)
          /\ t = SubSeq(text, i + 1, Len(text) - j)
          /\ \A k \in (1..i) \cup ((Len(text) - j + 1)..Len(text)) : IsWhite(text[k])
    /\ t # <<>> => ~IsWhite(t[1]) /\ ~IsWhite(t[Len(t)])

\* The messages of the validation branches of the service.
IsValidationError(error) ==
    /\ error # <<>>
    /\ error[1] \in {"Invalid amount: Please enter a valid positive number",
                     "Invalid amount", "Invalid category"}

OwnRows(userId) == {t \in transactions : t.userId = userId}

\* The list holds every row of the set once, serialized, by non-increasing date.
ListsExactly(list, rows) ==
    /\ Range(list) = {serializeTransaction(t) : t \in rows}
    /\ Len(list) = Cardinality(rows)
    /\ \A i, j \in DOMAIN list : i < j => DateLE(list[j].date, list[i].date)

\* a's calendar day is b's or an earlier one.
DayLE(a, b) == DateLE(setHours(a, StartOfDayMs), setHours(b, StartOfDayMs))

(***************************************************************************)
(* Properties.                                                             *)
(***************************************************************************)
\* The list has a row with the normalized fields of the form.
HasRowOf(list, args) ==
    \E i \in DOMAIN list :
        /\ IsTrimOf(list[i].name, args.name)
        /\ list[i].amount = parseFloat(args.amount)
        /\ list[i].category = args.category
        /\ list[i].date = args.date

\* The tables after the step.
DBNext == [users |-> users', transactions |-> transactions', nextId |-> nextId']

\* C1: for every valid form (amount text parsing to a positive number, category
\* of the closed set) of a signed-in caller, createTransaction succeeds and a
\* following getTransactions of the caller includes a transaction with the
\* trimmed name, the parsed amount, the category and the date of the form.
C1_CreateThenListIncludes ==
    [][(/\ CallStep
        /\ res'.op = "createTransaction"
        /\ SignedIn(res')
        /\ parseFloat(res'.args.amount).k = "num"
        /\ parseFloat(res'.args.amount).v > 0
        /\ res'.args.category \in validCategories)
       => (/\ res'.ret.success
           /\ \A out \in getTransactionsOut(DBNext, res'.caller, NoFault) :
                 out.ret.success /\ HasRowOf(out.ret.transactions, res'.args))]_vars

\* C2: createTransaction of a signed-in caller fails with a validation error and
\* persists no row whenever the amount text is not the text of a finite positive
\* number.
C2_BadAmountRejected ==
    [][(/\ CallStep
        /\ res'.op = "createTransaction"
        /\ SignedIn(res')
        /\ ~IsPositiveNumberText(res'.args.amount))
       => (/\ ~res'.ret.success
           /\ IsValidationError(res'.ret.error)
           /\ transactions' = transactions)]_vars

\* C3 as stated: createTransaction of a signed-in caller with a category outside
\* the closed set fails with an error naming the offending value, and the stored
\* transactions are unchanged.
C3_BadCategoryNamed ==
    [][(/\ CallStep
        /\ res'.op = "createTransaction"
        /\ SignedIn(res')
        /\ res'.args.category \notin validCategories)
       => (/\ ~res'.ret.success
           /\ res'.ret.error = <<"Invalid category", res'.args.category>>
           /\ transactions' = transactions)]_vars

\* The checks of createTransaction before the category check let the call through:
\* auth() answers an identity, the caller's "User" row is upserted, the amount
\* text is accepted.
ReachesCategoryCheck(call) ==
    /\ call.fault.at \notin {"auth", "ensureUser"}
    /\ SignedIn(call)
    /\ ~ensureUser(DB, call.caller, call.fault).thrown
    /\ ~isNaN(parseFloat(call.args.amount))
    /\ ~LeZero(parseFloat(call.args.amount))

\* C3 amended: createTransaction with a category outside the closed set always
\* fails and leaves the stored transactions unchanged; the error names the
\* offending value exactly when the call reaches the category check.
C3_BadCategoryRejected ==
    [][(/\ CallStep
        /\ res'.op = "createTransaction"
        /\ res'.args.category \notin validCategories)
       => (/\ ~res'.ret.success
           /\ transactions' = transactions
           /\ (res'.ret.error = <<"Invalid category", res'.args.category>>)
                 <=> ReachesCategoryCheck(res'))]_vars

\* A signed-in caller with stored transactions was refused a form with an
\* accepted amount and the category "Misc".
C3_Witness ==
    /\ res.op = "createTransaction"
    /\ SignedIn(res)
    /\ res.args.category = "Misc"
    /\ res.args.amount = Amount450
    /\ res.ret.error = <<"Invalid category", "Misc">>
    /\ OwnRows(res.caller) # {}

\* C4: updateTransaction and deleteTransaction with an id that matches no row
\* owned by the caller (a row of another user, a deleted row) change no row,
\* create none and fail; and no call changes, adds or removes a transaction
\* owned by a user other than the caller.
C4_ScopedMutation ==
    [][CallStep =>
        /\ (/\ res'.op \in {"updateTransaction", "deleteTransaction"}
            /\ ~\E t \in transactions : t.id = res'.args.id /\ t.userId = res'.caller)
           => (~res'.ret.success /\ transactions' = transactions)
        /\ \A t \in transactions \cup transactions' :
              t.userId # res'.caller => (t \in transactions /\ t \in transactions')]_vars

\* A signed-in caller was refused the update of a stored row of another user.
C4_Witness ==
    /\ res.op = "updateTransaction"
    /\ SignedIn(res)
    /\ ~res.ret.success
    /\ res.ret.error = <<"Failed to update transaction", "Record to update not found.">>
    /\ \E t \in transactions : t.id = res.args.id /\ t.userId # res.caller

\* C5: updateTransaction of a row of the caller with an amount text that is not
\* the text of a positive number, or with a category outside the closed set,
\* fails as a validation failure of the service, and no row changes.
C5_UpdateValidates ==
    [][(/\ CallStep
        /\ res'.op = "updateTransaction"
        /\ \E t \in transactions : t.id = res'.args.id /\ t.userId = res'.caller
        /\ \/ ~IsPositiveNumberText(res'.args.amount)
           \/ res'.args.category \notin validCategories)
       => (/\ ~res'.ret.success
           /\ IsValidationError(res'.ret.error)
           /\ transactions' = transactions)]_vars

\* The caller's rows dated in the month of ref, whatever the time of day.
RowsOfMonth(userId, ref) == {t \in OwnRows(userId) : SameMonth(t.date, ref)}

\* C6: getMonthlyTotal(ref) of a signed-in caller succeeds with the sum of the
\* amounts of the caller's transactions dated on any day of the month of ref,
\* and with exactly 0 when there is none.
C6_MonthlyTotal ==
    (res.op = "getMonthlyTotal" /\ SignedIn(res))
    => /\ res.ret.success
       /\ res.ret.total = Num(SumAmounts(RowsOfMonth(res.caller, res.args.date)))

\* The caller's rows dated from the calendar day of start through that of end.
RowsOfDays(userId, start, end) ==
    {t \in OwnRows(userId) : DayLE(start, t.date) /\ DayLE(t.date, end)}

\* C7: getTransactionsByDateRange(start, end) of a signed-in caller returns
\* exactly the caller's transactions dated from the day of start through the
\* day of end (for start = end: that calendar day), by non-increasing date.
C7_DateRange ==
    (res.op = "getTransactionsByDateRange" /\ SignedIn(res))
    => ListsExactly(res.ret.transactions,
                    RowsOfDays(res.caller, res.args.date, res.args.endDate))

\* C8: getTransactions of a signed-in caller returns all and only the
\* transactions the caller owns, by non-increasing date.
C8_ListOwn ==
    (res.op = "getTransactions" /\ SignedIn(res))
    => ListsExactly(res.ret.transactions, OwnRows(res.caller))

\* C9: without a caller identity each of the six operations returns
\* success = false, upserts no "User" row and creates, changes or removes no
\* transaction.
C9_NoIdentityNoEffect ==
    [][(CallStep /\ res'.op \in TransactionOps /\ res'.caller = NoUser)
       => (/\ ~res'.ret.success
           /\ users' = users
           /\ transactions' = transactions)]_vars

\* Without identity, the deletion of a stored row was refused.
C9_Witness ==
    /\ res.op = "deleteTransaction"
    /\ res.caller = NoUser
    /\ ~res.ret.success
    /\ \E t \in transactions : t.id = res.args.id

\* The fault of the call hits a collaborator call the operation makes.
FaultHit(call) ==
    \/ call.fault.at = "auth"
    \/ /\ call.fault.at = "ensureUser"
       /\ SignedIn(call)
       /\ call.op \in {"createTransaction", "getTransactions", "getMonthlyTotal",
                       "getTransactionsByDateRange"}
    \/ call.fault.at = "query" /\ SignedIn(call)
    \/ /\ call.fault.at = "revalidatePath"
       /\ SignedIn(call)
       /\ call.op \in {"createTransaction", "updateTransaction", "deleteTransaction"}

\* C10: no public operation lets a fault through to its caller; when a
\* collaborator call throws (auth(), the user upsert, the query,
\* revalidatePath, the extraction provider) the operation returns
\* success = false with an error message.
C10_NoFaultPropagates ==
    /\ ~res.thrown
    /\ (res.op \in TransactionOps /\ FaultHit(res))
       => (~res.ret.success /\ res.ret.error # <<>>)
    /\ (res.op = "scanReceipt" /\ res.scan.reply.k = "throw")
       => (~res.ret.success /\ res.ret.error # <<>>)

\* The row was updated, revalidatePath threw, and the caller got a failure
\* result.
C10_Witness ==
    /\ res.op = "updateTransaction"
    /\ res.fault = Fault("revalidatePath", "")
    /\ ~res.thrown
    /\ res.ret.error = <<"Failed to update transaction", "Unknown error">>
    /\ \E t \in transactions : t.id = res.args.id /\ t.name = trim(res.args.name)

\* The step is the return of a call that handleConfirmData of the AI modal made
\* through onSubmitTransaction.
AiSaveReturn == ev'.name = "return" /\ ev'.origin = "ai"

\* C11: after every sequence of earlier actions on the records page, the call
\* that "Save Transaction" of the confirm step makes adds one new transaction
\* and leaves every stored transaction as it was.
C11_AiSaveCreates ==
    [][AiSaveReturn
       => \E t \in transactions' :
             /\ \A old \in transactions : old.id # t.id
             /\ transactions' = transactions \cup {t}]_vars

\* The events of the AI modal up to the press of "Save Transaction": opening and
\* closing, the choice of a source, the capture or selection of an image, the
\* return of scanReceipt, "Try Again", and the press itself.
ModalSteps ==
    {"open", "close", "dismiss", "timer", "camera", "back", "tryAgain",
     "handleFileSelect", "handleCapture", "scanReturn", "handleConfirmData"}

\* C12: scanReceipt and every step of the AI modal up to the press of "Save
\* Transaction" leave the stored transactions as they are, whether the scan
\* succeeds or fails; only the call that Save makes writes.
C12_ScanWritesNothing ==
    [][ev'.name \in ModalSteps => transactions' = transactions]_vars

\* A scan has just succeeded over stored transactions: the modal shows the
\* confirm step with the extracted data, and nothing was added.
C12_Witness ==
    /\ ev.name = "scanReturn"
    /\ res.op = "scanReceipt"
    /\ res.ret.success
    /\ modal.step = "confirm"
    /\ modal.aiData = res.ret.data
    /\ transactions # {}
    /\ \A t \in transactions : t.name # <<"C", "a", "f", "e">>

\* C13: while the AI modal is mounted, the step becomes loading only by the
\* capture or selection of an image; once loading it stays loading until the
\* scan returns, whatever else happens (closing the dialog included), and the
\* return of the scan makes it confirm on success and error on failure.
C13_LoadingUntilResult ==
    [][ev'.name # "mount"
       => /\ (modal.step # "loading" /\ modal'.step = "loading")
                => ev'.name \in {"handleFileSelect", "handleCapture"}
          /\ (modal.step = "loading" /\ ev'.name # "scanReturn")
                => modal'.step = "loading"
          /\ (modal.step = "loading" /\ ev'.name = "scanReturn")
                => modal'.step = (IF res'.ret.success THEN "confirm" ELSE "error")]_vars

\* The sum of the values of a breakdown, in units of 10^-FracDigits.
RECURSIVE SumValues(_)
SumValues(entries) ==
    IF entries = <<>> THEN 0 ELSE Head(entries).value.v + SumValues(Tail(entries))

\* The transactions of the list that have the category.
OfCategory(list, category) == SelectSeq(list, LAMBDA t : t.category = category)

\* C14: the category breakdown of the list on display has exactly one entry for
\* each category that occurs in the list and none for any other, the value of
\* an entry is the sum of the amounts of the transactions of its category, the
\* values add up to the total of the list, and the entries are in
\* non-increasing order of value.
C14_BreakdownPartitions ==
    LET list == reports.transactions
        entries == categoryData(list)
    IN  /\ {entries[i].category : i \in DOMAIN entries}
              = {list[i].category : i \in DOMAIN list}
        /\ \A i, j \in DOMAIN entries :
              entries[i].category = entries[j].category => i = j
        /\ \A i \in DOMAIN entries :
              entries[i].value = Num(SumList(OfCategory(list, entries[i].category)))
        /\ SumValues(entries) = totalSpending(list).v
        /\ \A i, j \in DOMAIN entries : i < j => entries[i].value.v >= entries[j].value.v

\* A list of three transactions in two categories whose breakdown puts the
\* category of the two later transactions first.
C14_Witness ==
    LET list == reports.transactions
        entries == categoryData(list)
    IN  /\ Len(list) = 3
        /\ list[1].category = "Other"
        /\ list[2].category = "Food" /\ list[3].category = "Food"
        /\ Len(entries) = 2
        /\ entries[1] = [category |-> "Food", value |-> Num(1650)]
        /\ entries[2] = [category |-> "Other", value |-> Num(1200)]

\* The list on display is the one loaded for the window now selected.
ShownForWindow == reports.shownFor = DateRange(reports)

\* The buckets of the trend series whose half-open interval holds the date.
BucketsOf(date) ==
    LET intervals == Intervals(reports)
    IN  {i \in DOMAIN intervals :
            /\ DateLE(intervals[i], date)
            /\ DateLT(date, AddUnit(intervals[i], Granularity(reports.selectedPeriod)))}

\* C15: for each window (this month, last 3 months, this year, custom range)
\* and the list loaded for it, every transaction of the list is dated in exactly
\* one bucket [start, start + granularity) of the trend series, and the amounts
\* of the series add up to the total of the list.
C15_TrendSumsToTotal ==
    ShownForWindow
    => /\ \A k \in DOMAIN reports.transactions :
             Cardinality(BucketsOf(reports.transactions[k].date)) = 1
       /\ SumList(trendData(reports)) = totalSpending(reports.transactions).v

\* This month is shown with two transactions, one of them dated at midnight,
\* the instant where one daily bucket ends and the next begins.
C15_Witness ==
    /\ ShownForWindow
    /\ reports.selectedPeriod = "thisMonth"
    /\ ~reports.isLoading
    /\ Len(reports.transactions) = 2
    /\ \E k \in DOMAIN reports.transactions :
          reports.transactions[k].date = MkDate(2024, 10, 4, StartOfDayMs)
    /\ Len(trendData(reports)) = 30
    /\ SumList(trendData(reports)) = 1650

\* The calendar months a window touches.
MonthsSpanned(w) ==
    (w.endDate.y - w.startDate.y) * 12 + (w.endDate.m - w.startDate.m) + 1

\* The bucket unit the window calls for.
WindowUnit(w) ==
    IF MonthsSpanned(w) = 1 THEN "day"
    ELSE IF MonthsSpanned(w) <= 3 THEN "week"
    ELSE "month"

\* The bucket starts of a window in the unit it calls for.
WindowIntervals(w) ==
    IF WindowUnit(w) = "day" THEN eachDayOfInterval(w.startDate, w.endDate)
    ELSE IF WindowUnit(w) = "week" THEN eachWeekOfInterval(w.startDate, w.endDate)
    ELSE eachMonthOfInterval(w.startDate, w.endDate)

\* C16: the buckets of the trend series shown for a window, preset or custom,
\* are the days of the window when it lies within one month, its weeks when it
\* spans two or three months, and its months otherwise.
C16_GranularityFromWindow ==
    (ShownForWindow /\ reports.transactions # <<>>)
    => LET series == trendData(reports)
       IN  [i \in DOMAIN series |-> series[i].date] = WindowIntervals(DateRange(reports))

\* C17: for every window the trend series has one point per bucket of the
\* window, and the amount of a bucket without a transaction is 0; so it is when
\* the list of the window is empty.
C17_FullAxis ==
    ShownForWindow
    => LET series == trendData(reports)
           intervals == Intervals(reports)
       IN  /\ Len(series) = Len(intervals)
           /\ \A i \in DOMAIN series :
                 (\A k \in DOMAIN reports.transactions :
                     i \notin BucketsOf(reports.transactions[k].date))
                 => series[i].amount = Num(0)

\* The position of a row in the list (the rows of a list are distinct).
PositionOf(list, row) == CHOOSE k \in DOMAIN list : list[k] = row

\* Row a of the list comes before row b in the order of top expenses: by larger
\* amount, and for equal amounts by earlier position in the list.
Before(list, a, b) ==
    \/ list[a].amount.v > list[b].amount.v
    \/ list[a].amount.v = list[b].amount.v /\ a < b

Lacks(value) == value.t = "undefined" \/ (value.t = "string" /\ value.s = "")

\* The JSON value is a number greater than 0.
IsPositiveNumber(value) == value.t = "number" /\ value.n > 0

\* The response text of the call parsed as JSON.
Parsed(call) == call.scan.reply.k = "text" /\ IsJson(CleanText(call.scan.reply.text))

\* C19: a scan whose parsed response lacks name, amount, date or category, or
\* whose amount is not a number greater than 0, returns success = false; every
\* successful scan returns data with a non-empty name, a number amount greater
\* than 0, a date and a category.
C19_IncompleteScanFails ==
    res.op = "scanReceipt"
    => LET json == res.scan.reply.json
       IN  /\ (/\ Parsed(res)
               /\ \/ Lacks(json.name) \/ Lacks(json.amount)
                  \/ Lacks(json.date) \/ Lacks(json.category)
                  \/ ~IsPositiveNumber(json.amount))
              => (~res.ret.success /\ res.ret.data = <<>>)
           /\ res.ret.success
              => /\ Len(res.ret.data) = 1
                 /\ ~Lacks(res.ret.data[1].name)
                 /\ IsPositiveNumber(res.ret.data[1].amount)
                 /\ ~Lacks(res.ret.data[1].date)
                 /\ ~Lacks(res.ret.data[1].category)

\* A response with all four fields and the amount -5.00 was answered with the
\* failure of the amount check.
C19_Witness ==
    /\ res.op = "scanReceipt"
    /\ Parsed(res)
    /\ res.scan.reply.json = [GoodJson EXCEPT !.amount = JsonNumber(-500)]
    /\ ~res.ret.success
    /\ res.ret.error
          = <<"Scan failed", "Invalid", "amount", "extracted", "from", "receipt.">>

\* The call got a response that parsed, with all four fields, an amount greater
\* than 0 and a category outside the closed set.
OutsideCategoryResponse(call) ==
    LET json == call.scan.reply.json
    IN  /\ call.op = "scanReceipt"
        /\ call.scan.apiKey
        /\ StartsWithDataImage(call.scan.image)
        /\ ~base64ToGenerativePart(call.scan.image).thrown
        /\ Parsed(call)
        /\ ~Lacks(json.name) /\ ~Lacks(json.date) /\ ~Lacks(json.category)
        /\ IsPositiveNumber(json.amount)
        /\ json.category.s \notin validCategories

\* Every successful scan has a category of the closed set.
ScanCategoryInSet ==
    (res.op = "scanReceipt" /\ res.ret.success)
    => res.ret.data[1].category.s \in validCategories

\* C20 as stated: a response with all four fields, a valid amount and a category
\* outside the closed set succeeds with the category replaced by "Other" and the
\* other three fields as extracted; every successful scan has a category of the
\* closed set.
C20_CoercedRestAsExtracted ==
    /\ OutsideCategoryResponse(res)
       => /\ res.ret.success
          /\ res.ret.data = <<[res.scan.reply.json EXCEPT !.category = Str("Other")]>>
    /\ ScanCategoryInSet

\* The date texts of the form YYYY-MM-DD.
IsoDayTexts == {"2024-11-02", "2024-11-03", "2024-11-15", "2024-02-30"}

\* C20 amended: such a response succeeds with the category replaced by "Other",
\* name and amount as extracted, and the date as extracted when it has the form
\* YYYY-MM-DD and otherwise rewritten to a text of that form; every successful
\* scan has a category of the closed set.
C20_CoercedToOther ==
    /\ OutsideCategoryResponse(res)
       => LET json == res.scan.reply.json
          IN  /\ res.ret.success
              /\ Len(res.ret.data) = 1
              /\ res.ret.data[1].category = Str("Other")
              /\ res.ret.data[1].name = json.name
              /\ res.ret.data[1].amount = json.amount
              /\ res.ret.data[1].date.t = "string"
              /\ res.ret.data[1].date.s \in IsoDayTexts
              /\ json.date.s \in IsoDayTexts => res.ret.data[1].date = json.date
    /\ ScanCategoryInSet

\* The response {Cafe, 12.34, "Nov 3, 2024", Coffee} was answered with success,
\* category "Other" and a rewritten date.
C20_Witness ==
    /\ OutsideCategoryResponse(res)
    /\ res.scan.reply.json
          = [GoodJson EXCEPT !.category = Str("Coffee"), !.date = Str("Nov 3, 2024")]
    /\ res.ret.success
    /\ res.ret.data[1].category = Str("Other")
    /\ res.ret.data[1].date = Str("2024-11-02")

\* The answers of scanReceipt that refuse the image before any request to the
\* extraction provider.
ImageRejections ==
    {<<"Invalid image format. Please select a valid image file.">>,
     <<"Scan failed", "Invalid", "image", "data">>}

\* C21: scanReceipt called with a configured key and an image that does not
\* declare an image mime type, or that is larger than 10 MB, refuses the image
\* and issues no extraction request, whatever path the image came by.
C21_BadImageRejected ==
    (/\ res.op = "scanReceipt"
     /\ res.scan.apiKey
     /\ \/ ~StartsWithDataImage(res.scan.image)
        \/ ImageSize(res.scan.image) > MaxFileSize)
    => (~res.ret.success /\ res.ret.error \in ImageRejections)

\* The call passed the checks of the key and the image, so the extraction
\* provider was asked.
Requested(call) ==
    /\ call.scan.apiKey
    /\ StartsWithDataImage(call.scan.image)
    /\ ~base64ToGenerativePart(call.scan.image).thrown

ScanClass(subs, message) == [subs |-> subs, message |-> message]

\* The five kinds of provider failure, each with its known substrings and its
\* user-facing message.
ScanClasses ==
    {ScanClass({<<"API", "key">>, <<"API_KEY">>},
               "Invalid API key. Please check your Gemini API configuration."),
     ScanClass({<<"quota">>, <<"limit">>, <<"QUOTA">>},
               "API quota exceeded. Please try again later."),
     ScanClass({<<"PERMISSION_DENIED">>},
               "API access denied. Please check your API key permissions."),
     ScanClass({<<"INVALID_ARGUMENT">>},
               "Invalid image format. Please try with a different image."),
     ScanClass({<<"UNAVAILABLE">>, <<"network">>},
               "Service temporarily unavailable. Please try again.")}

\* The kinds whose substrings occur in the message.
ClassesOf(m) == {c \in ScanClasses : \E sub \in c.subs : Includes(m, sub)}

\* C22: the five kinds of provider failure have five different user-facing
\* messages; a scan that fails with an error message holding substrings of one
\* kind answers the message of that kind (of one of the kinds, when it holds
\* substrings of several), and an error message with none of the known
\* substrings is answered with its raw text after a prefix.
C22_ScanErrorsClassified ==
    /\ Cardinality({c.message : c \in ScanClasses}) = 5
    /\ (res.op = "scanReceipt" /\ Requested(res) /\ res.scan.reply.k = "throw")
       => LET m == res.scan.reply.msg
              parse == Includes(m, <<"JSON">>) \/ Includes(m, <<"parse">>)
          IN  /\ ~res.ret.success
              /\ (ClassesOf(m) # {} /\ ~parse)
                    => \E c \in ClassesOf(m) : res.ret.error = <<c.message>>
              /\ ClassesOf(m) = {}
                    => (/\ res.ret.error # <<>>
                        /\ Tail(res.ret.error) = m
                        /\ ~parse => Head(res.ret.error) = "Scan failed")

\* The provider failed with "403 PERMISSION_DENIED" and the scan answered the
\* message of denied access.
C22_Witness ==
    /\ res.op = "scanReceipt"
    /\ Requested(res)
    /\ res.scan.reply = ReplyThrow(<<"403", "PERMISSION_DENIED">>)
    /\ ~res.ret.success
    /\ res.ret.error = <<"API access denied. Please check your API key permissions.">>

\* C23: in one session of the records page at most one createTransaction,
\* updateTransaction or deleteTransaction call is in flight at any time.
C23_MutationsSerialized == Len(page.calls) <= 1

\* The tables as they would be had no user but userId ever made a call: only
\* the "User" row and the transactions of userId (ids are given out as they are).
OwnDB(userId) ==
    [users |-> {u \in users : u.id = userId},
     transactions |-> {t \in transactions : t.userId = userId},
     nextId |-> nextId]

\* The results the call can have on the tables db.
ResultsOn(db, call) ==
    LET data == FormData(call.args.name, call.args.amount, call.args.category,
                         call.args.date)
    IN  IF call.op = "createTransaction"
        THEN {createTransactionOut(db, call.caller, data, call.fault).ret}
        ELSE IF call.op = "updateTransaction"
        THEN {updateTransactionOut(db, call.caller, call.args.id, data, call.fault).ret}
        ELSE IF call.op = "deleteTransaction"
        THEN {deleteTransactionOut(db, call.caller, call.args.id, call.fault).ret}
        ELSE IF call.op = "getTransactions"
        THEN {out.ret : out \in getTransactionsOut(db, call.caller, call.fault)}
        ELSE IF call.op = "getMonthlyTotal"
        THEN {getMonthlyTotalOut(db, call.caller, call.args.date, call.fault).ret}
        ELSE {out.ret : out \in getTransactionsByDateRangeOut(
                                    db, call.caller, call.args.date, call.args.endDate,
                                    call.fault)}

\* C24: the result of every operation of a signed-in user is a result the same
\* call has on the tables without the rows of any other user; what other users
\* have done makes no difference to it.
C24_UsersIsolated ==
    [][(CallStep /\ res'.op \in TransactionOps /\ SignedIn(res'))
       => res'.ret \in ResultsOn(OwnDB(res'.caller), res')]_vars

(***************************************************************************)
(* The schema's foreign key.  No code of the repository deletes a "User"   *)
(* row; the row is deleted in the database itself, and the constraint      *)
(* Transaction_userId_fkey decides what happens to the user's rows.        *)
(***************************************************************************)
\* The wrong rule: the rows of the deleted user stay.
onDeleteNoAction(db, userId) ==
    [db EXCEPT !.users = {u \in @ : u.id # userId}]

\* FOREIGN KEY ("userId") REFERENCES "User"("id") ON DELETE CASCADE
onDeleteCascade(db, userId) ==
    [db EXCEPT !.users = {u \in @ : u.id # userId},
               !.transactions = {t \in @ : t.userId # userId}]

\* DELETE FROM "User" WHERE "id" = userId, outside the service.
deleteUser(userId) ==
    /\ \E u \in users : u.id = userId
    /\ LET db == onDeleteCascade(DB, userId)
       IN  /\ users' = db.users
           /\ transactions' = db.transactions
           /\ nextId' = db.nextId
    /\ res' = NoCall
    /\ UNCHANGED profile
    /\ UNCHANGED client

DeleteUser == \E userId \in UserIds : deleteUser(userId)

NextSchema ==
    \/ Create
    \/ Update
    \/ Delete
    \/ List
    \/ MonthlyTotal
    \/ ListByDateRange
    \/ ChangeEmail
    \/ DeleteUser

SpecSchema == Init /\ [][NextSchema]_vars

\* Every stored transaction has its owner's row in "User".
OwnersExist == \A t \in transactions : \E u \in users : u.id = t.userId

\* The row of user id as ensureUser leaves it: the provider's current email and
\* name, and currency USD when the row is new.
Upserted(id) ==
    \E u \in users' :
        /\ u.id = id
        /\ u.email = (IF profile[id].email = NoEmail THEN "" ELSE profile[id].email)
        /\ u.name = (IF profile[id].fullName = NoName THEN "null"
                                                      ELSE profile[id].fullName)
        /\ ((~\E old \in users : old.id = id) => u.currency = "USD")
        /\ \A old \in users : old.id = id => u.currency = old.currency

\* C25: every stored transaction's userId has a row in "User"; a create that
\* inserts a transaction has upserted the caller's row first (currency USD when
\* the row is new, email and name refreshed otherwise); deleting a "User" row
\* removes that user's transactions.
C25_OwnerRowExists ==
    /\ []OwnersExist
    /\ [][(CallStep /\ res'.op = "createTransaction" /\ res'.ret.success)
            => Upserted(res'.caller)]_vars
    /\ [][(\E u \in users : u \notin users' /\ ~\E v \in users' : v.id = u.id)
            => \A t \in transactions' : \E v \in users' : v.id = t.userId]_vars

\* A user with transactions has been deleted, and another user's transaction
\* was created after its row was refreshed.
C25_Witness ==
    /\ res.op = "none"
    /\ nextId > 1
    /\ \E id \in UserIds : ~\E u \in users : u.id = id
    /\ \E t \in transactions : \E u \in users : u.id = t.userId

(***************************************************************************)
(* SpecNames: one signed-in account calling Create and Update with display *)
(* names that are empty, blank, or padded.                                 *)
(***************************************************************************)
NameEmpty == <<>>

NameBlank == <<" ", " ">>

Names == {NameEmpty, NameBlank, NameTea, NameRent}

NameForms == {FormData(n, Amount12, c, Nov4) : n \in Names, c \in {"Food", "Other"}}

NamesCreate == \E d \in NameForms : createTransaction("u1", d, NoFault)

NamesUpdate == \E id \in Ids, d \in NameForms : updateTransaction("u1", id, d, NoFault)

NamesDelete == \E id \in Ids : deleteTransaction("u1", id, NoFault)

NextNames ==
    \/ NamesCreate
    \/ NamesUpdate
    \/ NamesDelete

SpecNames == Init /\ [][NextNames]_vars

\* C26: every stored transaction has a display name that is not empty after
\* trimming.
C26_NamesNonEmpty == \A t \in transactions : trim(t.name) # <<>>

(***************************************************************************)
(* SpecSave: the AI modal from the scan to the return of the call that     *)
(* "Save Transaction" makes, with a database that may refuse the query.    *)
(***************************************************************************)
SaveFaults == {NoFault, Fault("query", "ECONNREFUSED")}

SaveFileSelect == handleFileSelect(PngFile)

SaveScanReturn ==
    \E i \in DOMAIN modal.scans : ScanReturn(i, ReplyText(<<JsonText>>, GoodJson))

SaveConfirm == Len(page.calls) < MaxInFlight /\ handleConfirmData

SaveCallReturn ==
    \E i \in DOMAIN page.calls, fault \in SaveFaults : PageCallReturnWith(i, fault)

NextSave ==
    \/ UiMount
    \/ ModalOpen
    \/ ModalCloseControl
    \/ ModalDismiss
    \/ ModalResetTimer
    \/ ModalTryAgain
    \/ SaveFileSelect
    \/ SaveScanReturn
    \/ SaveConfirm
    \/ SaveCallReturn

SpecSave == Init /\ [][NextSave]_vars

\* C27: when the call of "Save Transaction" fails, the AI modal moves to step
\* error and onTransactionSaved is not called (the list on display is not
\* reloaded); the modal closes on the return of the call only when a
\* transaction was persisted.
C27_FailedSaveShown ==
    [][(AiSaveReturn /\ ~res'.ret.success)
       => /\ modal'.step = "error"
          /\ modal'.modalOpen = modal.modalOpen
          /\ modal'.timers = modal.timers
          /\ page'.transactions = page.transactions]_vars

\* C28: when the AI modal is opened with no delayed reset pending, it is in
\* step choose with no extracted data and an empty error message, whatever
\* happened before it was dismissed and whichever scan results arrived since.
C28_ReopensFresh ==
    [][(ev'.name = "open" /\ modal.timers = 0)
       => /\ modal'.step = "choose"
          /\ modal'.aiData = <<>>
          /\ modal'.errorMessage = <<>>]_vars

(***************************************************************************)
(* SpecLoads: the reports page with up to MaxCalls range loads in flight,  *)
(* returning in any order.                                                 *)
(***************************************************************************)
LoadsSelect ==
    Len(reports.loads) < MaxCalls /\ \E p \in Presets : setSelectedPeriod(p)

LoadsStart ==
    Len(reports.loads) < MaxCalls /\ \E d \in CustomDays : setCustomStartDate(d)

LoadsEnd ==
    Len(reports.loads) < MaxCalls /\ \E d \in CustomDays : setCustomEndDate(d)

LoadsApply == Len(reports.loads) < MaxCalls /\ handleCustomRangeApply

NextLoads ==
    \/ ReportsMount
    \/ LoadsSelect
    \/ setCustomRangeOpen
    \/ LoadsStart
    \/ LoadsEnd
    \/ LoadsApply
    \/ ReportsLoadReturn

SpecLoads == Init /\ [][NextLoads]_vars

\* C29: once no range load is in flight, the list on display is the result of
\* the load of the currently selected window.
C29_LatestWindowShown ==
    (reports.loads = <<>> /\ reports.shownFor # NoWindow)
        => reports.shownFor = DateRange(reports)

\* C30: the window of the reports page (the memo { startDate, endDate }) has
\* its start date on or before its end date.
C30_WindowOrdered == DateLE(DateRange(reports).startDate, DateRange(reports).endDate)

=============================================================================
